---------------------------- MODULE Spec2Model ----------------------------
(***************************************************************************)
(* The puzzle engine of blueberry-puzzle-app (src/core/blueberryCore.ts):  *)
(* row patterns, generateBoard, computeClues, solveCount, makePuzzle and   *)
(* solveOneFromClueGrid, with the fixtures the tests and the pool loader   *)
(* put around them.                                                        *)
(*                                                                         *)
(* The engine is written for a block size of 3 (N = 9, three berries per   *)
(* row, column and block).  Every definition below is the code's, with the *)
(* literal 3 read as blockSize and 9 as N = blockSize * blockSize.  Spec   *)
(* runs the engine at the program's size (blockSize = 3).  SpecSmall runs  *)
(* the same definitions on the 4x4 instance (blockSize = 2), where the     *)
(* clue-removal loop of makePuzzle is within reach of the model checker,   *)
(* and where the game screens (RootApp, App) play the puzzles it returns.  *)
(* SpecClues hands computeClues boards of any kind: every 0/1 board of the *)
(* 4x4 instance and 9x9 boards with few cells marked or unmarked.          *)
(* SpecGenerate runs generateBoard alone, on both sizes, under weak        *)
(* fairness of the search, for the question whether it always returns.     *)
(*                                                                         *)
(* The three recursive searches run one loop iteration per step, on an     *)
(* explicit stack of backtrack(r) invocations.                             *)
(*                                                                         *)
(* JavaScript arrays are 0-based: rows, boards and counters are functions  *)
(* on 0..N-1.  Lists whose order the code iterates (pattern lists, clue    *)
(* lists, Map entries) are sequences, so JS index i is index i + 1 here.   *)
(***************************************************************************)
EXTENDS Integers, Sequences, FiniteSets, TLC

VARIABLES
    blockSize,  \* side of a block: 3 in the program
    table,      \* the module's ROW_PATTERNS array
    numbers,    \* what computeClues returned
    ui,         \* the game screen: the puzzle shown, the player's board, its history
    earlier,    \* what an earlier solveCount call returned, and for which Map
    seed,       \* which random source the host supplies
    rng,        \* the random source: how many values it has yielded
    pc,         \* where the host is
    opts,       \* makePuzzle's options as given, and extraClues, nonEmptyBlocks as read
    board,      \* the Board generateBoard returned
    grid,       \* the ClueGrid under examination
    origin,     \* where grid comes from: "full" | "puzzle", and how it was edited
    clues,      \* the Map<string, number> handed to solveCount
    cap,        \* solveCount's maxSolutions
    count,      \* what solveCount returned or threw
    solved,     \* what solveOneFromClueGrid returned
    mp,         \* makePuzzle's locals: clueCells, order, active, loop index
    puzzle,     \* the Puzzle makePuzzle returned
    base,       \* the puzzle of an earlier run with extraClues = 0, same source
    search      \* the running search: candidates, counters, board, stack

vars == <<blockSize, table, numbers, ui, earlier, seed, rng, pc, opts, board, grid, origin, clues, cap,
          count, solved, mp, puzzle, base, search>>

\* what the engine's searches and makePuzzle never write
others == <<blockSize, numbers, ui, earlier>>

-----------------------------------------------------------------------------
(* Sizes *)

\* The block size of the program: the literal 3 of blueberryCore.ts.
FullBlockSize == 3

\* The block size of the reduced instance (4x4, two berries per unit).
SmallBlockSize == FullBlockSize - 1

\* blueberryCore.ts:3  export const N = 9
N == blockSize * blockSize

\* the literal 3 of the exact-3 rule (berries per row, column and block)
PerUnit == blockSize

Idx == 0 .. N - 1

\* NEIGHBOR_DIRS, in the order of the source
NEIGHBOR_DIRS ==
    << <<-1, -1>>, <<-1, 0>>, <<-1, 1>>, <<0, -1>>, <<0, 1>>, <<1, -1>>, <<1, 0>>, <<1, 1>> >>

Dirs == 1 .. Len(NEIGHBOR_DIRS)

-----------------------------------------------------------------------------
(* JavaScript values: numbers that may be NaN, null, strings *)

\* A number is <<n>>; NaN is the empty tuple.
NaN == <<>>
Num(n) == <<n>>
IsNaN(x) == x = <<>>

\* x + d for an integer d
JsPlus(x, d) == IF IsNaN(x) THEN NaN ELSE Num(x[1] + d)

\* comparisons with an integer; every comparison with NaN is false
JsLt(x, n) == ~IsNaN(x) /\ x[1] < n
JsGe(x, n) == ~IsNaN(x) /\ x[1] >= n
JsLe(x, n) == ~IsNaN(x) /\ x[1] <= n

\* A ClueGrid cell: null, or the clue number
Null == <<>>

\* an argument the caller leaves out
Undefined == <<>>
Clue(v) == <<v>>

\* The value of a field of an options object: undefined, NaN, a boolean, or
\* a number x written as 2x, so that halves are at hand as non-integers.
Absent == [kind |-> "undefined", twice |-> 0]
NotANumber == [kind |-> "NaN", twice |-> 0]
Bool(b) == [kind |-> "boolean", twice |-> IF b THEN 2 ELSE 0]
Number(twice) == [kind |-> "number", twice |-> twice]

\* x ?? d
OrElse(x, d) == IF x.kind = "undefined" THEN d ELSE x

\* Number.isInteger(x)
NumberIsInteger(x) == x.kind = "number" /\ x.twice % 2 = 0

\* x < 0, false of NaN
LessThanZero(x) == x.kind = "number" /\ x.twice < 0

\* if (x)
Truthy(x) == x.kind \in {"boolean", "number"} /\ x.twice # 0

\* A string is a sequence of characters.
Digits == <<"0", "1", "2", "3", "4", "5", "6", "7", "8", "9">>
DigitValue(ch) == (CHOOSE d \in 1 .. 10 : Digits[d] = ch) - 1
IsDigit(ch) == \E d \in 1 .. 10 : Digits[d] = ch

RECURSIVE NatToString(_)
\* String(n) of a natural number
NatToString(n) ==
    IF n < 10 THEN <<Digits[n + 1]>>
    ELSE NatToString(n \div 10) \o <<Digits[(n % 10) + 1]>>

\* `${n}` of an integer
IntToString(n) == IF n < 0 THEN <<"-">> \o NatToString(-n) ELSE NatToString(n)

\* cellKey(r, c): `${r},${c}`
cellKey(r, c) == IntToString(r) \o <<",">> \o IntToString(c)

RECURSIVE DigitsToNat(_)
DigitsToNat(ds) ==
    IF ds = <<>> THEN 0
    ELSE DigitsToNat(SubSeq(ds, 1, Len(ds) - 1)) * 10 + DigitValue(ds[Len(ds)])

\* parseInt(s, 10): leading blanks skipped, an optional sign, then the longest
\* run of digits; NaN when there is none.  undefined is parsed as "undefined".
parseInt(s) ==
    LET blanks == {i \in 1 .. Len(s) : \A k \in 1 .. i : s[k] = " "}
        from == Cardinality(blanks) + 1
        signed == from <= Len(s) /\ s[from] \in {"-", "+"}
        first == IF signed THEN from + 1 ELSE from
        run == {i \in first .. Len(s) : \A k \in first .. i : IsDigit(s[k])}
        value == DigitsToNat(SubSeq(s, first, first + Cardinality(run) - 1))
    IN  IF run = {} THEN NaN
        ELSE IF signed /\ s[from] = "-" THEN Num(-value) ELSE Num(value)

\* key.split(","): the first two pieces (the second is undefined when the
\* key holds no comma), then parseInt of each
parseCellKey(key) ==
    LET commas == {i \in 1 .. Len(key) : key[i] = ","}
        c1 == IF commas = {} THEN Len(key) + 1
              ELSE CHOOSE i \in commas : \A k \in commas : i <= k
        later == {i \in commas : i > c1}
        c2 == IF later = {} THEN Len(key) + 1
              ELSE CHOOSE i \in later : \A k \in later : i <= k
        rs == SubSeq(key, 1, c1 - 1)
    IN  [r |-> parseInt(rs),
         c |-> IF commas = {} THEN NaN ELSE parseInt(SubSeq(key, c1 + 1, c2 - 1))]

-----------------------------------------------------------------------------
(* Row patterns *)

RECURSIVE RowPatternsBacktrack(_, _, _)
RECURSIVE RowPatternsLoop(_, _, _)
RECURSIVE RowPatternsLoopShort(_, _, _)

\* a faulty loop that never tries the last index
RowPatternsLoopShort(i, depth, current) ==
    IF i >= N - 1 THEN <<>>
    ELSE RowPatternsBacktrack(i + 1, depth + 1, Append(current, i))
         \o RowPatternsLoopShort(i + 1, depth, current)

\* the for loop of ROW_PATTERNS' backtrack, from index i on
RowPatternsLoop(i, depth, current) ==
    IF i >= N THEN <<>>
    ELSE RowPatternsBacktrack(i + 1, depth + 1, Append(current, i))
         \o RowPatternsLoop(i + 1, depth, current)

\* backtrack(start, depth, current) of ROW_PATTERNS: the patterns it pushes
RowPatternsBacktrack(start, depth, current) ==
    IF depth = PerUnit
    THEN << [p \in Idx |-> IF \E k \in 1 .. Len(current) : current[k] = p THEN 1 ELSE 0] >>
    ELSE RowPatternsLoop(start, depth, current)

ROW_PATTERNS == RowPatternsBacktrack(0, 0, <<>>)

-----------------------------------------------------------------------------
(* The random source *)

\* A source yields fractions n / RngDenominator.  The denominator is a
\* power of two, so that x * maxExclusive is exact in floating point.
RngBits == 2
RngDenominator == 2 ^ RngBits

\* Source s answers its call number `calls` (from 0) with a numerator in
\* 0 .. RngDenominator: values in [0, 1) and the out-of-range value 1 that
\* randInt clamps.
RngAt(s, calls) ==
    ((s + 1) * (calls + 1) + (calls \div (RngDenominator + 1))) % (RngDenominator + 1)

\* randInt(rng, maxExclusive): x <= 0 clamps to 0, x >= 1 to 0.999999999999,
\* whose product with an integer maxExclusive < 10^12 floors to maxExclusive - 1.
randInt(x, maxExclusive) ==
    IF x <= 0 THEN 0
    ELSE IF x >= RngDenominator THEN maxExclusive - 1
    ELSE (x * maxExclusive) \div RngDenominator

\* one iteration of shuffle's loop: const j = randInt(rng, i + 1), then the
\* swap of arr[i] and arr[j]; g counts the calls
\* source s answered before the shuffle began
ShuffleStep(arr, s, g, i) ==
    LET j == randInt(RngAt(s, g + (Len(arr) - 1 - i)), i + 1)
    IN  [arr EXCEPT ![i + 1] = arr[j + 1], ![j + 1] = arr[i + 1]]

RECURSIVE ShuffleSpan(_, _, _, _, _)
\* the iterations i = hi down to lo of shuffle's loop.  The span is halved
\* and the upper half's array is measured before the lower half starts, so
\* that the evaluation nests only logarithmically deep; the swaps keep the
\* length, so the measure always agrees.
ShuffleSpan(arr, s, g, hi, lo) ==
    IF hi < lo THEN arr
    ELSE IF hi = lo THEN ShuffleStep(arr, s, g, hi)
    ELSE LET mid == (hi + lo) \div 2
             upper == ShuffleSpan(arr, s, g, hi, mid + 1)
         IN  IF Len(upper) = Len(arr) THEN ShuffleSpan(upper, s, g, mid, lo) ELSE arr

\* shuffle(arr, rng): Fisher-Yates, in place, i = arr.length - 1 down to 1;
\* one rng call per iteration
shuffle(arr, s, g) == ShuffleSpan(arr, s, g, Len(arr) - 1, 1)
ShuffleCalls(arr) == IF Len(arr) > 1 THEN Len(arr) - 1 ELSE 0

-----------------------------------------------------------------------------
(* Counters and row checks of the three searches *)

ZeroCounts == [i \in Idx |-> 0]
EmptyBoard == [r \in Idx |-> [c \in Idx |-> 0]]

\* a faulty block number that takes the block column from c % 3
BlockIdByRemainder(r, c) == (r \div blockSize) * blockSize + (c % blockSize)

\* Math.floor(r / 3) * 3 + Math.floor(c / 3)
BlockId(r, c) == (r \div blockSize) * blockSize + (c \div blockSize)

MarkedCols(row) == {c \in Idx : row[c] = 1}

\* addCols / addBlocks of one candidate row, as the per-cell loop fills them
AddCols(row) == [c \in Idx |-> IF row[c] = 1 THEN 1 ELSE 0]
AddBlocks(row, r) ==
    [b \in Idx |-> Cardinality({c \in MarkedCols(row) : BlockId(r, c) = b})]

\* ok: no marked cell finds its column or its block already at 3
\* (newCol > 3, newBlock > 3: each against the counters before this row)
RowOk(row, r, colCounts, blockCounts) ==
    \A c \in MarkedCols(row) :
        ~(colCounts[c] + 1 > PerUnit) /\ ~(blockCounts[BlockId(r, c)] + 1 > PerUnit)

PlusCounts(a, b) == [i \in Idx |-> a[i] + b[i]]
MinusCounts(a, b) == [i \in Idx |-> a[i] - b[i]]

\* r % 3 === 2 and the band's three blocks are not all exactly 3
BandFails(r, blockCounts) ==
    /\ r % blockSize = blockSize - 1
    /\ LET start == (r \div blockSize) * blockSize
       IN  ~(\A b \in start .. start + blockSize - 1 : blockCounts[b] = PerUnit)

\* feasible: every column <= 3 and still able to reach 3
ColumnsFeasible(r, colCounts) ==
    LET remainingRows == N - (r + 1)
    IN  \A c \in Idx : ~(colCounts[c] > PerUnit \/ colCounts[c] + remainingRows < PerUnit)

\* colCounts.every(c => c === 3) && blockCounts.every(b => b === 3)
AllCountsExact(colCounts, blockCounts) ==
    (\A c \in Idx : colCounts[c] = PerUnit) /\ (\A b \in Idx : blockCounts[b] = PerUnit)

-----------------------------------------------------------------------------
(* checkConstraints, computeClues, buildValidRows *)

RowSum(b, r) == Cardinality({c \in Idx : b[r][c] = 1})
ColSum(b, c) == Cardinality({r \in Idx : b[r][c] = 1})
BlockSum(b, k) == Cardinality({rc \in Idx \X Idx : BlockId(rc[1], rc[2]) = k /\ b[rc[1]][rc[2]] = 1})

\* checkConstraints(board) does not throw
checkConstraints(b) ==
    /\ \A r \in Idx : RowSum(b, r) = PerUnit
    /\ \A c \in Idx : ColSum(b, c) = PerUnit
    /\ \A k \in Idx : BlockSum(b, k) = PerUnit

\* a faulty computeClues that looks at the four orthogonal neighbours only
computeCluesOrthogonal(b) ==
    [r \in Idx |-> [c \in Idx |->
        Cardinality({d \in {2, 4, 5, 7} :
            LET rr == r + NEIGHBOR_DIRS[d][1]
                cc == c + NEIGHBOR_DIRS[d][2]
            IN  rr >= 0 /\ rr < N /\ cc >= 0 /\ cc < N /\ b[rr][cc] = 1})]]

\* a faulty computeClues that counts the cell itself with its neighbours
computeCluesWithSelf(b) ==
    [r \in Idx |-> [c \in Idx |->
        Cardinality({rc \in Idx \X Idx :
            rc[1] - r \in {-1, 0, 1} /\ rc[2] - c \in {-1, 0, 1} /\ b[rc[1]][rc[2]] = 1})]]

\* a faulty computeClues that wraps around the edges of the grid
computeCluesWrapped(b) ==
    [r \in Idx |-> [c \in Idx |->
        Cardinality({d \in Dirs :
            b[(r + NEIGHBOR_DIRS[d][1] + N) % N][(c + NEIGHBOR_DIRS[d][2] + N) % N] = 1})]]

\* computeClues(board): marked cells among the in-bounds 8-neighbours
computeClues(b) ==
    [r \in Idx |-> [c \in Idx |->
        Cardinality({d \in Dirs :
            LET rr == r + NEIGHBOR_DIRS[d][1]
                cc == c + NEIGHBOR_DIRS[d][2]
            IN  rr >= 0 /\ rr < N /\ cc >= 0 /\ cc < N /\ b[rr][cc] = 1})]]

\* a faulty filter that keeps every pattern
PatternsUnfiltered(patterns, forbidden) == patterns

\* the patterns with no berry in a forbidden column, order kept.
\* pattern[fc] of a column outside the row is undefined, never 1.
PatternsAvoiding(patterns, forbidden) ==
    LET ok(pattern) == ~(\E fc \in forbidden : fc \in Idx /\ pattern[fc] = 1)
    IN  SelectSeq(patterns, ok)

\* buildValidRows(rowForbiddenCols); forbidden[r] is rowForbiddenCols.get(r)
buildValidRows(forbidden) ==
    LET patterns == table
    IN  [r \in 1 .. N |-> PatternsAvoiding(patterns, forbidden[r - 1])]

\* a faulty clueList that misses the first entry of the Map
ClueListWithoutFirst(m) ==
    [k \in 1 .. Len(m) - 1 |->
        LET rc == parseCellKey(m[k + 1].key) IN [r |-> rc.r, c |-> rc.c, v |-> m[k + 1].v]]

\* clues.forEach((v, key) => clueList.push({r, c, v})), in insertion order
ClueListOf(m) ==
    [k \in 1 .. Len(m) |->
        LET rc == parseCellKey(m[k].key) IN [r |-> rc.r, c |-> rc.c, v |-> m[k].v]]

\* solveCount's rowForbiddenCols: the parsed column of every key whose parsed
\* row is r (a NaN row is a key of its own; a NaN column matches no index)
sc_rowForbiddenCols(clueList) ==
    [r \in Idx |-> {clueList[k].c[1] : k \in {k \in 1 .. Len(clueList) :
                        clueList[k].r = Num(r) /\ ~IsNaN(clueList[k].c)}}]

\* cellsToMap(cells): Map.set keeps a key's first position and last value
cellsToMap(cells) ==
    LET key(k) == cellKey(cells[k].r, cells[k].c)
        isFirst(k) == \A j \in 1 .. k - 1 : key(j) # key(k)
        firsts == SelectSeq([k \in 1 .. Len(cells) |-> k], isFirst)
        last(k) == CHOOSE j \in k .. Len(cells) :
                       key(j) = key(k) /\ \A i \in j + 1 .. Len(cells) : key(i) # key(k)
    IN  [n \in 1 .. Len(firsts) |-> [key |-> key(firsts[n]), v |-> cells[last(firsts[n])].v]]

\* The cells of a grid that hold a clue, row by row: {r, c, v}
GridCells(g) ==
    LET all == [k \in 1 .. N * N |-> [r |-> (k - 1) \div N, c |-> (k - 1) % N]]
        has(rc) == g[rc.r][rc.c] # Null
        kept == SelectSeq(all, has)
    IN  [n \in 1 .. Len(kept) |-> [r |-> kept[n].r, c |-> kept[n].c, v |-> g[kept[n].r][kept[n].c][1]]]

\* the fixture cluesToMap(puzzleClues): m.set(`${r},${c}`, v) row by row
cluesToMap(g) == cellsToMap(GridCells(g))

\* the fixture fullClueGridForBoard(board)
fullClueGridForBoard(b) ==
    LET computed == computeClues(b)
    IN  [r \in Idx |-> [c \in Idx |-> IF b[r][c] = 0 THEN Clue(computed[r][c]) ELSE Null]]

-----------------------------------------------------------------------------
(* The clue checks of solveCount and of solveOneFromClueGrid *)

\* nr, nc of neighbour d of a clue
NeighborRow(cl, d) == JsPlus(cl.r, NEIGHBOR_DIRS[d][1])
NeighborCol(cl, d) == JsPlus(cl.c, NEIGHBOR_DIRS[d][2])

\* a faulty bounds test that lets the neighbours of the rows above and below
\* through only
ConsideredAboveBelow(cl) ==
    {d \in Dirs : NEIGHBOR_DIRS[d][1] # 0 /\
        ~(JsLt(NeighborRow(cl, d), 0) \/ JsGe(NeighborRow(cl, d), N)
          \/ JsLt(NeighborCol(cl, d), 0) \/ JsGe(NeighborCol(cl, d), N))}

\* the neighbours the bounds test lets through:
\* if (nr < 0 || nr >= N || nc < 0 || nc >= N) continue
Considered(cl) ==
    {d \in Dirs : ~(JsLt(NeighborRow(cl, d), 0) \/ JsGe(NeighborRow(cl, d), N)
                    \/ JsLt(NeighborCol(cl, d), 0) \/ JsGe(NeighborCol(cl, d), N))}

\* boardRows[nr][nc] === 1 for a numeric nr; boardRows[nr][NaN] is undefined
CellIsOne(boardRows, cl, d) ==
    /\ ~IsNaN(NeighborCol(cl, d))
    /\ boardRows[NeighborRow(cl, d)[1]][NeighborCol(cl, d)[1]] = 1

\* a faulty check that tests nothing but current + unknownMaxAdd < clueVal
PartialClueOkShortfallOnly(cl, boardRows, lastRowIndex) ==
    LET known == {d \in Considered(cl) : JsLe(NeighborRow(cl, d), lastRowIndex)}
        unknownMaxAdd == Cardinality(Considered(cl) \ known)
        current == Cardinality({d \in known : CellIsOne(boardRows, cl, d)})
    IN  ~(current + unknownMaxAdd < cl.v)

\* a faulty check that lacks the test current + unknownMaxAdd < clueVal
PartialClueOkNoShortfall(cl, boardRows, lastRowIndex) ==
    LET known == {d \in Considered(cl) : JsLe(NeighborRow(cl, d), lastRowIndex)}
        unknownMaxAdd == Cardinality(Considered(cl) \ known)
        current == Cardinality({d \in known : CellIsOne(boardRows, cl, d)})
    IN  /\ ~(current > cl.v)
        /\ ~(unknownMaxAdd = 0 /\ current # cl.v)

\* One clue of checkCluesPartial: the clue does not make it return false.
\* current becomes NaN once an undefined cell is added to it.
PartialClueOk(cl, boardRows, lastRowIndex) ==
    LET known == {d \in Considered(cl) : JsLe(NeighborRow(cl, d), lastRowIndex)}
        unknownMaxAdd == Cardinality(Considered(cl) \ known)
        currentNaN == \E d \in known : IsNaN(NeighborCol(cl, d))
        current == Cardinality({d \in known : CellIsOne(boardRows, cl, d)})
    IN  IF currentNaN
        THEN ~(unknownMaxAdd = 0)
        ELSE /\ ~(current > cl.v)
             /\ ~(current + unknownMaxAdd < cl.v)
             /\ ~(unknownMaxAdd = 0 /\ current # cl.v)

\* One clue of checkCluesFull: "throw" when boardRows[NaN] is indexed,
\* else whether cnt === clueVal (a NaN cnt never is)
FullClueResult(cl, boardRows) ==
    IF \E d \in Considered(cl) : IsNaN(NeighborRow(cl, d)) THEN "throw"
    ELSE IF \E d \in Considered(cl) : IsNaN(NeighborCol(cl, d)) THEN "false"
    ELSE IF Cardinality({d \in Considered(cl) : CellIsOne(boardRows, cl, d)}) = cl.v
         THEN "true" ELSE "false"

\* a loop over clueList that returns false at the first failing clue
FirstNotTrue(results) ==
    LET bad == {k \in 1 .. Len(results) : results[k] # "true"}
    IN  IF bad = {} THEN "true"
        ELSE results[CHOOSE k \in bad : \A j \in bad : k <= j]

\* solveCount's checkCluesPartial(lastRowIndex)
sc_checkCluesPartial(clueList, boardRows, lastRowIndex) ==
    \A k \in 1 .. Len(clueList) : PartialClueOk(clueList[k], boardRows, lastRowIndex)

\* solveCount's checkCluesFull(): "true" | "false" | "throw"
sc_checkCluesFull(clueList, boardRows) ==
    FirstNotTrue([k \in 1 .. Len(clueList) |-> FullClueResult(clueList[k], boardRows)])

\* solveOneFromClueGrid's checkCluesPartial(lastRowIndex)
so_checkCluesPartial(clueList, boardRows, lastRowIndex) ==
    \A k \in 1 .. Len(clueList) : PartialClueOk(clueList[k], boardRows, lastRowIndex)

\* solveOneFromClueGrid's checkCluesFull()
so_checkCluesFull(clueList, boardRows) ==
    FirstNotTrue([k \in 1 .. Len(clueList) |-> FullClueResult(clueList[k], boardRows)])

-----------------------------------------------------------------------------
(* The searches, one loop iteration per step *)

\* No search is running.
Idle ==
    [fn |-> "none", rows |-> <<>>, clueList |-> <<>>,
     colCounts |-> <<>>, blockCounts |-> <<>>, boardRows |-> <<>>,
     stack |-> <<>>, phase |-> "done", ret |-> FALSE, found |-> <<>>,
     solutions |-> 0, maxSolutions |-> 0]

\* An invocation backtrack(r): its argument, the position of its loop, and,
\* for the record, the counters as they were when it was entered.
Invocation(r, colCounts, blockCounts) ==
    [r |-> r, i |-> 0, entry |-> [colCounts |-> colCounts, blockCounts |-> blockCounts]]

\* The locals a search starts with, and the call backtrack(0).
StartSearch(fn, rows, clueList, maxSolutions) ==
    [fn |-> fn, rows |-> rows, clueList |-> clueList,
     colCounts |-> ZeroCounts, blockCounts |-> ZeroCounts, boardRows |-> EmptyBoard,
     stack |-> << Invocation(0, ZeroCounts, ZeroCounts) >>, phase |-> "enter",
     ret |-> FALSE, found |-> <<>>,
     solutions |-> 0, maxSolutions |-> maxSolutions]

Top(s) == s.stack[Len(s.stack)]

\* the candidate row the top invocation is at
TopRow(s) == s.rows[Top(s).r + 1][Top(s).i]

\* "apply": the row's marks go onto the counters, the row onto the board
Applied(s, row, r) ==
    [s EXCEPT !.colCounts = PlusCounts(s.colCounts, AddCols(row)),
              !.blockCounts = PlusCounts(s.blockCounts, AddBlocks(row, r)),
              !.boardRows = [s.boardRows EXCEPT ![r] = row]]

\* a faulty revert that leaves the counters as they are
NotReverted(s, row, r) == s

\* a faulty revert that forgets the column counters
RevertedBlocksOnly(s, row, r) ==
    [s EXCEPT !.blockCounts = MinusCounts(s.blockCounts, AddBlocks(row, r))]

\* a faulty revert that forgets the block counters
RevertedColumnsOnly(s, row, r) ==
    [s EXCEPT !.colCounts = MinusCounts(s.colCounts, AddCols(row))]

\* "revert": the row's marks come off the counters (the board keeps the row)
Reverted(s, row, r) ==
    [s EXCEPT !.colCounts = MinusCounts(s.colCounts, AddCols(row)),
              !.blockCounts = MinusCounts(s.blockCounts, AddBlocks(row, r))]

\* the top invocation returns `value` to its caller
Return(s, value) ==
    [s EXCEPT !.stack = SubSeq(s.stack, 1, Len(s.stack) - 1),
              !.ret = value,
              !.phase = IF Len(s.stack) = 1 THEN "done" ELSE "return"]

\* the loop of the top invocation moves on to its next candidate
NextCandidate(s) ==
    [s EXCEPT !.stack[Len(s.stack)].i = Top(s).i + 1, !.phase = "loop"]

\* the top invocation calls backtrack(r + 1)
Descend(s) ==
    [s EXCEPT !.stack = Append(s.stack, Invocation(Top(s).r + 1, s.colCounts, s.blockCounts)),
              !.phase = "enter"]

\* One step of generateBoard's backtrack.
gen_backtrack(s) ==
    LET r == Top(s).r
    IN  CASE s.phase = "enter" ->
               IF r = N
               THEN Return(s, AllCountsExact(s.colCounts, s.blockCounts))
               ELSE NextCandidate(s)
          [] s.phase = "loop" ->
               IF Top(s).i > Len(s.rows[r + 1]) THEN Return(s, FALSE)
               ELSE IF ~RowOk(TopRow(s), r, s.colCounts, s.blockCounts)
                    THEN NextCandidate(s)
                    ELSE LET applied == Applied(s, TopRow(s), r)
                         IN  IF BandFails(r, applied.blockCounts)
                             THEN NextCandidate(Reverted(applied, TopRow(s), r))
                             ELSE IF ColumnsFeasible(r, applied.colCounts)
                                  THEN Descend(applied)
                                  ELSE NextCandidate(Reverted(applied, TopRow(s), r))
          [] s.phase = "return" ->
               IF s.ret THEN Return(s, TRUE)
               ELSE NextCandidate(Reverted(s, TopRow(s), r))

\* One step of solveCount's backtrack.
sc_backtrack(s) ==
    LET r == Top(s).r
    IN  CASE s.phase = "enter" ->
               IF s.solutions >= s.maxSolutions THEN Return(s, FALSE)
               ELSE IF r = N
               THEN IF ~(\A c \in Idx : s.colCounts[c] = PerUnit) THEN Return(s, FALSE)
                    ELSE IF ~(\A b \in Idx : s.blockCounts[b] = PerUnit) THEN Return(s, FALSE)
                    ELSE LET full == sc_checkCluesFull(s.clueList, s.boardRows)
                         IN  IF full = "throw" THEN [s EXCEPT !.phase = "threw"]
                             ELSE IF full = "false" THEN Return(s, FALSE)
                             ELSE Return([s EXCEPT !.solutions = s.solutions + 1], FALSE)
               ELSE NextCandidate(s)
          [] s.phase = "loop" ->
               IF Top(s).i > Len(s.rows[r + 1]) THEN Return(s, FALSE)
               ELSE IF ~RowOk(TopRow(s), r, s.colCounts, s.blockCounts)
                    THEN NextCandidate(s)
                    ELSE LET applied == Applied(s, TopRow(s), r)
                         IN  IF BandFails(r, applied.blockCounts)
                             THEN NextCandidate(Reverted(applied, TopRow(s), r))
                             ELSE IF ColumnsFeasible(r, applied.colCounts)
                                     /\ sc_checkCluesPartial(s.clueList, applied.boardRows, r)
                                  THEN Descend(applied)
                                  ELSE NextCandidate(Reverted(applied, TopRow(s), r))
          [] s.phase = "return" ->
               NextCandidate(Reverted(s, TopRow(s), r))

\* One step of solveOneFromClueGrid's backtrack; found is cloneBoardRows().
so_backtrack(s) ==
    LET r == Top(s).r
    IN  CASE s.phase = "enter" ->
               IF r = N
               THEN IF ~(\A c \in Idx : s.colCounts[c] = PerUnit) THEN Return(s, FALSE)
                    ELSE IF ~(\A b \in Idx : s.blockCounts[b] = PerUnit) THEN Return(s, FALSE)
                    ELSE LET full == so_checkCluesFull(s.clueList, s.boardRows)
                         IN  IF full = "throw" THEN [s EXCEPT !.phase = "threw"]
                             ELSE IF full = "false" THEN Return(s, FALSE)
                             ELSE Return([s EXCEPT !.found = s.boardRows], TRUE)
               ELSE NextCandidate(s)
          [] s.phase = "loop" ->
               IF Top(s).i > Len(s.rows[r + 1]) THEN Return(s, FALSE)
               ELSE IF ~RowOk(TopRow(s), r, s.colCounts, s.blockCounts)
                    THEN NextCandidate(s)
                    ELSE LET applied == Applied(s, TopRow(s), r)
                         IN  IF BandFails(r, applied.blockCounts)
                             THEN NextCandidate(Reverted(applied, TopRow(s), r))
                             ELSE IF ColumnsFeasible(r, applied.colCounts)
                                     /\ so_checkCluesPartial(s.clueList, applied.boardRows, r)
                                  THEN Descend(applied)
                                  ELSE NextCandidate(Reverted(applied, TopRow(s), r))
          [] s.phase = "return" ->
               IF s.ret THEN Return(s, TRUE)
               ELSE NextCandidate(Reverted(s, TopRow(s), r))

Running(fn) == search.fn = fn /\ search.phase \in {"enter", "loop", "return"}
Finished(fn) == search.fn = fn /\ search.phase \in {"done", "threw"}

-----------------------------------------------------------------------------
(* Bounds of the host's inputs *)

MaxSeed == 4      \* random sources 0 .. MaxSeed
MaxCap == 2       \* maxSolutions 0 .. MaxCap
MaxExtra == 4     \* extraClues 0 .. MaxExtra

\* Keys no cellKey call produces, and keys of cells outside the grid.
MalformedKeys ==
    { <<"x", ",", "0">>, <<"0">>, <<"9", "9", ",", "0">>, <<"-", "1", ",", "1">> }

NoPuzzle == [solution |-> <<>>, puzzleClues |-> <<>>]
NoMp == [clueCells |-> <<>>, order |-> <<>>, active |-> <<>>, trial |-> <<>>, k |-> 0,
         minimized |-> <<>>, afterBlocks |-> <<>>]
\* makePuzzle(): no field is given
NoOptions == [extraClues |-> Absent, nonEmptyBlocks |-> Absent, dense |-> Absent]
\* no game on screen: useState's initial values
NoUi == [app |-> "none", playerBoard |-> <<>>, showSolution |-> FALSE, status |-> "",
         statusOk |-> "null", history |-> <<>>, future |-> <<>>, violationsOf |-> <<>>,
         taps |-> 0]
\* no solveCount result is kept
NoEarlier == [made |-> FALSE, n |-> 0, clues |-> <<>>]
NoBase == [made |-> FALSE, solution |-> <<>>, puzzleClues |-> <<>>, nonEmptyBlocks |-> FALSE]

\* everything but the board
Started(size) ==
    /\ blockSize = size
    /\ table = ROW_PATTERNS
    /\ numbers = <<>>
    /\ ui = NoUi
    /\ earlier = NoEarlier
    /\ seed = 0
    /\ rng = 0
    /\ pc = "start"
    /\ opts = [extraClues |-> 0, nonEmptyBlocks |-> FALSE, given |-> NoOptions]
    /\ grid = <<>>
    /\ origin = [from |-> "none", edited |-> FALSE]
    /\ clues = <<>>
    /\ cap = Undefined
    /\ count = [threw |-> FALSE, n |-> 0]
    /\ solved = [isNull |-> TRUE, board |-> <<>>]
    /\ mp = NoMp
    /\ puzzle = NoPuzzle
    /\ base = NoBase
    /\ search = Idle

InitAt(size) == Started(size) /\ board = <<>>

Init == InitAt(FullBlockSize)
InitSmall == InitAt(SmallBlockSize)

-----------------------------------------------------------------------------
(* computeClues on boards of any kind *)

MaxMarks == 1     \* 9x9 boards with at most MaxMarks cells marked, or unmarked

\* the fixture emptyBoard() with the cells of `marks` set to 1
BoardOf(marks) == [r \in Idx |-> [c \in Idx |-> IF <<r, c>> \in marks THEN 1 ELSE 0]]

\* the fixture miniClueBoard(): berries at (1,1), (1,2), (2,1) and (0,8)
miniClueBoard == BoardOf({<<1, 1>>, <<1, 2>>, <<2, 1>>, <<0, N - 1>>})

RECURSIVE CellSetsUpTo(_)
\* the sets of at most k cells
CellSetsUpTo(k) ==
    IF k = 0 THEN {{}}
    ELSE LET fewer == CellSetsUpTo(k - 1)
         IN  fewer \cup {S \cup {rc} : S \in fewer, rc \in Idx \X Idx}

\* The boards computeClues is handed: every 0/1 board of the 4x4 instance;
\* at 9x9 the fixture, the boards with few marks and the boards with few
\* cells left unmarked.
ArbitraryBoards ==
    IF blockSize = SmallBlockSize
    THEN [Idx -> [Idx -> {0, 1}]]
    ELSE {miniClueBoard}
         \cup {BoardOf(S) : S \in CellSetsUpTo(MaxMarks)}
         \cup {BoardOf((Idx \X Idx) \ S) : S \in CellSetsUpTo(MaxMarks)}

InitClues ==
    \E size \in {SmallBlockSize, FullBlockSize} : Started(size) /\ board \in ArbitraryBoards

\* const clues = computeClues(board): the board is read, never written
ComputeClues ==
    /\ pc = "start"
    /\ board # <<>>
    /\ numbers' = computeClues(board)
    /\ pc' = "clues"
    /\ UNCHANGED <<blockSize, ui, earlier, table, seed, rng, opts, board, grid, origin, clues, cap,
                   count, solved, mp, puzzle, base, search>>

NextClues == ComputeClues

SpecClues == InitClues /\ [][NextClues]_vars

-----------------------------------------------------------------------------
(* generateBoard *)

\* a faulty setup that keeps only the first pattern of every shuffled copy
PatternsPerRowFirstOnly(s, g) ==
    LET patterns == table
    IN  [r \in 1 .. N |->
            SubSeq(shuffle(patterns, s, g + (r - 1) * ShuffleCalls(patterns)), 1, 1)]

\* patternsPerRow: a copy of ROW_PATTERNS per row, each shuffled in turn
PatternsPerRow(s, g) ==
    LET patterns == table
    IN  [r \in 1 .. N |-> shuffle(patterns, s, g + (r - 1) * ShuffleCalls(patterns))]

PatternsPerRowCalls == N * ShuffleCalls(table)

\* a faulty setup that shuffles ROW_PATTERNS itself, the slice() forgotten
gen_tableShuffled(patternsPerRow) == patternsPerRow[N]

\* ROW_PATTERNS after the setup loop: shuffle works on the copy slice() made,
\* so the module's array keeps its order
gen_tableAfter(patternsPerRow) == table

\* the rows generateBoard starts its search with, on source s after g calls
gen_start(s, g) == StartSearch("generateBoard", PatternsPerRow(s, g), <<>>, 0)

\* generateBoard({rng}) on a new source s, up to its call backtrack(0)
CallGenerateBoard(s) ==
    /\ pc = "start"
    /\ seed' = s
    /\ search' = gen_start(s, 0)
    /\ table' = gen_tableAfter(search'.rows)
    /\ rng' = PatternsPerRowCalls
    /\ pc' = "generateBoard"
    /\ UNCHANGED <<others, opts, board, grid, origin, clues, cap, count, solved,
                   mp, puzzle, base>>

StepGenerateBoard ==
    /\ Running("generateBoard")
    /\ search' = gen_backtrack(search)
    /\ UNCHANGED <<others, table, seed, rng, pc, opts, board, grid, origin, clues, cap, count,
                   solved, mp, puzzle, base>>

\* if (!backtrack(0)) throw ...; return clone2D(boardRows)
ReturnGenerateBoard ==
    /\ pc = "generateBoard"
    /\ Finished("generateBoard")
    /\ IF search.ret
       THEN board' = search.boardRows /\ pc' = IF base.made THEN "boardAgain" ELSE "board"
       ELSE board' = board /\ pc' = "failed"
    /\ search' = Idle
    /\ UNCHANGED <<others, table, seed, rng, opts, grid, origin, clues, cap, count, solved,
                   mp, puzzle, base>>

\* the board is kept, and generateBoard({rng}) runs again on a source that
\* yields the same values
GenerateBoardAgain ==
    /\ pc = "board"
    /\ ~base.made
    /\ base' = [NoBase EXCEPT !.made = TRUE, !.solution = board]
    /\ search' = gen_start(seed, 0)
    /\ table' = gen_tableAfter(search'.rows)
    /\ rng' = PatternsPerRowCalls
    /\ pc' = "generateBoard"
    /\ UNCHANGED <<others, seed, opts, board, grid, origin, clues, cap, count, solved, mp,
                   puzzle>>

-----------------------------------------------------------------------------
(* The clue grids and clue maps the host builds *)

\* the test fixture: the full clue grid of the generated board
FullClueGrid ==
    /\ pc = "board"
    /\ grid' = fullClueGridForBoard(board)
    /\ origin' = [from |-> "full", edited |-> FALSE]
    /\ pc' = "grid"
    /\ UNCHANGED <<others, table, seed, rng, opts, board, clues, cap, count, solved, mp,
                   puzzle, base, search>>

\* the pool loader: only the clue grid of a puzzle is kept (a puzzle made
\* for comparison with an earlier one is not loaded)
LoadPuzzle ==
    /\ pc = "puzzle"
    /\ ~base.made
    /\ grid' = puzzle.puzzleClues
    /\ origin' = [from |-> "puzzle", edited |-> FALSE]
    /\ pc' = "grid"
    /\ UNCHANGED <<others, table, seed, rng, opts, board, clues, cap, count, solved, mp,
                   puzzle, base, search>>

\* every clue of row r is taken off the grid
ClearRow(r) ==
    /\ pc = "grid"
    /\ ~origin.edited
    /\ \E c \in Idx : grid[r][c] # Null
    /\ grid' = [grid EXCEPT ![r] = [c \in Idx |-> Null]]
    /\ origin' = [origin EXCEPT !.edited = TRUE]
    /\ UNCHANGED <<others, table, seed, rng, pc, opts, board, clues, cap, count, solved, mp,
                   puzzle, base, search>>

\* the first clue of row r is changed by d
EditClue(r, d) ==
    /\ pc = "grid"
    /\ ~origin.edited
    /\ \E c \in Idx : grid[r][c] # Null
    /\ LET c0 == CHOOSE c \in Idx : grid[r][c] # Null /\ \A k \in 0 .. c - 1 : grid[r][k] = Null
       IN  grid' = [grid EXCEPT ![r][c0] = Clue(grid[r][c0][1] + d)]
    /\ origin' = [origin EXCEPT !.edited = TRUE]
    /\ UNCHANGED <<others, table, seed, rng, pc, opts, board, clues, cap, count, solved, mp,
                   puzzle, base, search>>

\* the solveCount test's impossible clue: the clue of cell (0,0), else the
\* first clue of row 0, else the first clue of the grid, is set to 9 when the
\* cell is interior and to 8 when it is not
ImpossibleClue ==
    /\ pc = "grid"
    /\ ~origin.edited
    /\ \E r \in Idx, c \in Idx : grid[r][c] # Null
    /\ LET first == GridCells(grid)[1]
           r == first.r
           c == first.c
           isInterior == r > 0 /\ r < N - 1 /\ c > 0 /\ c < N - 1
       IN  grid' = [grid EXCEPT ![r][c] = Clue(IF isInterior THEN 9 ELSE 8)]
    /\ origin' = [origin EXCEPT !.edited = TRUE]
    /\ UNCHANGED <<others, table, seed, rng, pc, opts, board, clues, cap, count, solved, mp,
                   puzzle, base, search>>

\* the test fixture cluesToMap
CluesToMap ==
    /\ pc = "grid"
    /\ clues' = cluesToMap(grid)
    /\ pc' = "map"
    /\ UNCHANGED <<others, table, seed, rng, opts, board, grid, origin, cap, count, solved, mp,
                   puzzle, base, search>>

\* a Map the caller writes by hand: empty, or one entry whose key is not a
\* cell of the grid, or the one clue 9 on the corner cell (0,0)
HandMaps ==
    { <<>>, << [key |-> cellKey(0, 0), v |-> 9] >> }
        \cup { << [key |-> key, v |-> 0] >> : key \in MalformedKeys }

HandMap(m) ==
    /\ pc = "start"
    /\ clues' = m
    /\ origin' = [from |-> "hand", edited |-> FALSE]
    /\ pc' = "map"
    /\ UNCHANGED <<others, table, seed, rng, opts, board, grid, cap, count, solved, mp,
                   puzzle, base, search>>

\* entry k of a Map built from a grid gets a key that is not a cell of the grid
CorruptKey(k, key) ==
    /\ pc = "map"
    /\ ~origin.edited
    /\ origin.from # "hand"
    /\ k \in 1 .. Len(clues)
    /\ clues' = [clues EXCEPT ![k].key = key]
    /\ origin' = [origin EXCEPT !.edited = TRUE]
    /\ UNCHANGED <<others, table, seed, rng, pc, opts, board, grid, cap, count, solved, mp,
                   puzzle, base, search>>

-----------------------------------------------------------------------------
(* solveCount *)

\* solveCount(clues, maxSolutions) up to its call backtrack(0)
sc_start(m, maxSolutions) ==
    LET clueList == ClueListOf(m)
    IN  StartSearch("solveCount", buildValidRows(sc_rowForbiddenCols(clueList)),
                    clueList, maxSolutions)

\* the default of the parameter: maxSolutions = 2
DefaultMaxSolutions == 2

\* the call solveCount(clues, maxSolutions), maxSolutions a number or left out
CallSolveCount(maxSolutions) ==
    /\ pc = "map"
    /\ cap' = maxSolutions
    /\ search' = sc_start(clues, IF maxSolutions = Undefined THEN DefaultMaxSolutions
                                 ELSE maxSolutions[1])
    /\ pc' = "solveCount"
    /\ UNCHANGED <<others, table, seed, rng, opts, board, grid, origin, clues, count, solved,
                   mp, puzzle, base>>

StepSolveCount ==
    /\ Running("solveCount")
    /\ search' = sc_backtrack(search)
    /\ UNCHANGED <<others, table, seed, rng, pc, opts, board, grid, origin, clues, cap, count,
                   solved, mp, puzzle, base>>

\* return solutions, or the TypeError thrown on the way
ReturnSolveCount ==
    /\ pc \in {"solveCount", "recount"}
    /\ Finished("solveCount")
    /\ count' = [threw |-> search.phase = "threw", n |-> search.solutions]
    /\ pc' = IF pc = "recount" THEN "recounted" ELSE "counted"
    /\ search' = Idle
    /\ UNCHANGED <<others, table, seed, rng, opts, board, grid, origin, clues, cap, solved,
                   mp, puzzle, base>>

\* a count is kept, every entry of row r is deleted from the Map (an edit),
\* and solveCount runs again on the smaller Map with the same cap
CountAgainWithoutRow(r) ==
    /\ pc = "counted"
    /\ ~earlier.made
    /\ ~origin.edited /\ origin.from # "hand"
    /\ cap = Num(MaxCap)
    /\ ~count.threw
    /\ earlier' = [made |-> TRUE, n |-> count.n, clues |-> clues]
    /\ LET inRow(entry) == \E c \in Idx : entry.key = cellKey(r, c)
           kept(entry) == ~inRow(entry)
       IN  /\ clues' = SelectSeq(clues, kept)
           /\ search' = sc_start(clues', MaxCap)
    /\ origin' = [origin EXCEPT !.edited = TRUE]
    /\ pc' = "solveCount"
    /\ UNCHANGED <<blockSize, numbers, ui, table, seed, rng, opts, board, grid, cap,
                   count, solved, mp, puzzle, base>>

-----------------------------------------------------------------------------
(* solveOneFromClueGrid *)

\* its rowForbiddenCols: the columns of the non-null cells of row r
so_rowForbiddenCols(g) == [r \in Idx |-> {c \in Idx : g[r][c] # Null}]

\* a faulty clueList that lacks the last clue of the grid
so_clueListShort(g) ==
    LET all == ClueListOf(cellsToMap(GridCells(g))) IN SubSeq(all, 1, Len(all) - 1)

\* its clues Map (clues.set(cellKey(r, c), v), row by row) read back into clueList
so_clueList(g) == ClueListOf(cellsToMap(GridCells(g)))

so_start(g) ==
    StartSearch("solveOne", buildValidRows(so_rowForbiddenCols(g)), so_clueList(g), 0)

CallSolveOne ==
    /\ pc = "grid"
    /\ search' = so_start(grid)
    /\ pc' = "solveOne"
    /\ UNCHANGED <<others, table, seed, rng, opts, board, grid, origin, clues, cap, count,
                   solved, mp, puzzle, base>>

StepSolveOne ==
    /\ Running("solveOne")
    /\ search' = so_backtrack(search)
    /\ UNCHANGED <<others, table, seed, rng, pc, opts, board, grid, origin, clues, cap, count,
                   solved, mp, puzzle, base>>

\* return backtrack(0): a board, or null
ReturnSolveOne ==
    /\ pc = "solveOne"
    /\ Finished("solveOne")
    /\ solved' = [isNull |-> ~search.ret, board |-> search.found]
    /\ pc' = IF search.phase = "threw" THEN "failed" ELSE "solved"
    /\ search' = Idle
    /\ UNCHANGED <<others, table, seed, rng, opts, board, grid, origin, clues, cap, count,
                   mp, puzzle, base>>

\* the grid solveOneFromClueGrid was given goes through cluesToMap to
\* solveCount with cap 1; the board (or null) is kept beside the count
CountSolvedGrid ==
    /\ pc = "solved"
    /\ clues' = cluesToMap(grid)
    /\ cap' = Num(1)
    /\ search' = sc_start(clues', 1)
    /\ pc' = "recount"
    /\ UNCHANGED <<others, table, seed, rng, opts, board, grid, origin, count, solved,
                   mp, puzzle, base>>

-----------------------------------------------------------------------------
(* makePuzzle *)

\* a faulty clueCells that lists every cell, marked or not
ClueCellsEveryCell(b) ==
    LET computed == computeClues(b)
    IN  GridCells([r \in Idx |-> [c \in Idx |-> Clue(computed[r][c])]])

\* clueCells: {r, c, v: cluesFull[r][c]} of every cell with board[r][c] === 0
ClueCells(b) == GridCells(fullClueGridForBoard(b))

SameCell(a, b) == a.r = b.r /\ a.c = b.c

\* active.filter(cl => !(cl.r === cell.r && cl.c === cell.c))
Without(active, cell) ==
    LET keep(cl) == ~SameCell(cl, cell) IN SelectSeq(active, keep)

KeySet(cells) == {cellKey(cells[k].r, cells[k].c) : k \in 1 .. Len(cells)}

InBlock(cl, br, bc) == cl.r \div blockSize = br /\ cl.c \div blockSize = bc

\* a faulty nonEmptyBlocks step that reinstates nothing
ReinstateNothing(k, clueCells, active, activeSet, s, g) ==
    [active |-> active, activeSet |-> activeSet, rng |-> g]

RECURSIVE ReinstateBlocks(_, _, _, _, _, _)
\* the nonEmptyBlocks loops from block number k (br = k div 3, bc = k mod 3) on:
\* the active list, the active key set and the rng calls made
ReinstateBlocks(k, clueCells, active, activeSet, s, g) ==
    IF k >= N THEN [active |-> active, activeSet |-> activeSet, rng |-> g]
    ELSE
      LET br == k \div blockSize
          bc == k % blockSize
          hasActiveInBlock == \E n \in 1 .. Len(active) : InBlock(active[n], br, bc)
          isCandidate(cl) == cellKey(cl.r, cl.c) \notin activeSet /\ InBlock(cl, br, bc)
          candidates == SelectSeq(clueCells, isCandidate)
      IN  IF hasActiveInBlock \/ Len(candidates) = 0
          THEN ReinstateBlocks(k + 1, clueCells, active, activeSet, s, g)
          ELSE LET picked == candidates[randInt(RngAt(s, g), Len(candidates)) + 1]
               IN  ReinstateBlocks(k + 1, clueCells, Append(active, picked),
                                   activeSet \cup {cellKey(picked.r, picked.c)}, s, g + 1)

\* a faulty extraClues step that puts every removed candidate back
AddEveryRemoved(extraClues, clueCells, active, activeSet, s, g) ==
    LET isRemoved(cl) == cellKey(cl.r, cl.c) \notin activeSet
        removedAfterBlocks == SelectSeq(clueCells, isRemoved)
    IN  IF extraClues > 0 /\ Len(removedAfterBlocks) > 0
        THEN [active |-> active \o shuffle(removedAfterBlocks, s, g),
              rng |-> g + ShuffleCalls(removedAfterBlocks)]
        ELSE [active |-> active, rng |-> g]

\* a faulty extraClues step that stops one clue short
AddOneFewer(extraClues, clueCells, active, activeSet, s, g) ==
    LET isRemoved(cl) == cellKey(cl.r, cl.c) \notin activeSet
        removedAfterBlocks == SelectSeq(clueCells, isRemoved)
    IN  IF extraClues > 0 /\ Len(removedAfterBlocks) > 0
        THEN LET shuffled == shuffle(removedAfterBlocks, s, g)
                 toAdd == IF extraClues < Len(shuffled) THEN extraClues ELSE Len(shuffled)
             IN  [active |-> active \o SubSeq(shuffled, 1, toAdd - 1),
                  rng |-> g + ShuffleCalls(removedAfterBlocks)]
        ELSE [active |-> active, rng |-> g]

\* the extraClues step
AddExtraClues(extraClues, clueCells, active, activeSet, s, g) ==
    LET isRemoved(cl) == cellKey(cl.r, cl.c) \notin activeSet
        removedAfterBlocks == SelectSeq(clueCells, isRemoved)
    IN  IF extraClues > 0 /\ Len(removedAfterBlocks) > 0
        THEN LET shuffled == shuffle(removedAfterBlocks, s, g)
                 toAdd == IF extraClues < Len(shuffled) THEN extraClues ELSE Len(shuffled)
             IN  [active |-> active \o SubSeq(shuffled, 1, toAdd),
                  rng |-> g + ShuffleCalls(removedAfterBlocks)]
        ELSE [active |-> active, rng |-> g]

\* a faulty grid builder that writes every clue one too high
GridOfRaised(active) ==
    [r \in Idx |-> [c \in Idx |->
        LET at == {n \in 1 .. Len(active) : active[n].r = r /\ active[n].c = c}
        IN  IF at = {} THEN Null
            ELSE Clue(active[CHOOSE n \in at : \A j \in at : j <= n].v + 1)]]

\* puzzleClues: null everywhere, then puzzleClues[cl.r][cl.c] = cl.v in list order
GridOf(active) ==
    [r \in Idx |-> [c \in Idx |->
        LET at == {n \in 1 .. Len(active) : active[n].r = r /\ active[n].c = c}
        IN  IF at = {} THEN Null
            ELSE Clue(active[CHOOSE n \in at : \A j \in at : j <= n].v)]]

\* a faulty validation that forgets Number.isInteger
mp_RejectsNegative(extraClues) == LessThanZero(extraClues)

\* if (!Number.isInteger(extraClues) || extraClues < 0) throw new Error(...)
mp_Rejects(extraClues) == ~NumberIsInteger(extraClues) \/ LessThanZero(extraClues)

\* makePuzzle(options) on a new source s: the options are read and
\* validated, then generateBoard({rng}) runs up to its backtrack(0)
CallMakePuzzle(s, options) ==
    /\ pc = "start"
    /\ seed' = s
    /\ LET extraClues == OrElse(options.extraClues, Number(0))
           nonEmptyBlocks == OrElse(options.nonEmptyBlocks, Bool(FALSE))
       IN  /\ opts' = [extraClues |-> extraClues.twice \div 2,
                       nonEmptyBlocks |-> Truthy(nonEmptyBlocks), given |-> options]
           /\ IF mp_Rejects(extraClues)
              THEN /\ pc' = "rejected"
                   /\ UNCHANGED <<search, rng, table>>
              ELSE /\ search' = gen_start(s, 0)
                   /\ table' = gen_tableAfter(search'.rows)
                   /\ rng' = PatternsPerRowCalls
                   /\ pc' = "mp_generateBoard"
    /\ UNCHANGED <<others, board, grid, origin, clues, cap, count, solved, mp,
                   puzzle, base>>

\* generateBoard returns; checkConstraints, clueCells, active, the shuffled order
mp_AfterGenerate ==
    /\ pc = "mp_generateBoard"
    /\ Finished("generateBoard")
    /\ search' = Idle
    /\ IF search.ret /\ checkConstraints(search.boardRows)
       THEN LET clueCells == ClueCells(search.boardRows)
            IN  /\ board' = search.boardRows
                /\ mp' = [NoMp EXCEPT !.clueCells = clueCells, !.active = clueCells,
                                      !.order = shuffle(clueCells, seed, rng), !.k = 1]
                /\ rng' = rng + ShuffleCalls(clueCells)
                /\ pc' = "mp_loop"
       ELSE /\ pc' = "failed"
            /\ UNCHANGED <<board, mp, rng>>
    /\ UNCHANGED <<others, table, seed, opts, grid, origin, clues, cap, count, solved, puzzle,
                   base>>

\* a faulty test that also accepts a removal leaving several solutions
AcceptsSome(sols) == sols >= 1

\* a faulty test that keeps every removal
AcceptsAlways(sols) == TRUE

\* a faulty test that compares with 0, so that no removal is ever kept
AcceptsZero(sols) == sols = 0

\* if (sols === 1) active = trial
Accepts(sols) == sols = 1

\* for (const cell of order): trial, and the call solveCount(cellsToMap(trial), 2)
mp_CallSolveCount ==
    /\ pc = "mp_loop"
    /\ mp.k <= Len(mp.order)
    /\ LET trial == Without(mp.active, mp.order[mp.k])
       IN  /\ mp' = [mp EXCEPT !.trial = trial]
           /\ search' = sc_start(cellsToMap(trial), 2)
    /\ pc' = "mp_solveCount"
    /\ UNCHANGED <<others, table, seed, rng, opts, board, grid, origin, clues, cap, count,
                   solved, puzzle, base>>

\* if (sols === 1) active = trial; and on to the next cell of order
mp_ReturnSolveCount ==
    /\ pc = "mp_solveCount"
    /\ Finished("solveCount")
    /\ search' = Idle
    /\ IF search.phase = "threw"
       THEN pc' = "failed" /\ mp' = mp
       ELSE /\ pc' = "mp_loop"
            /\ mp' = [mp EXCEPT !.active = IF Accepts(search.solutions) THEN mp.trial ELSE @,
                                !.k = @ + 1]
    /\ UNCHANGED <<others, table, seed, rng, opts, board, grid, origin, clues, cap, count,
                   solved, puzzle, base>>

\* the loop is over: post-processing, the puzzleClues grid, the returned Puzzle
mp_Finish ==
    /\ pc = "mp_loop"
    /\ mp.k > Len(mp.order)
    /\ LET activeSet == KeySet(mp.active)
           blocks == IF opts.nonEmptyBlocks
                     THEN ReinstateBlocks(0, mp.clueCells, mp.active, activeSet, seed, rng)
                     ELSE [active |-> mp.active, activeSet |-> activeSet, rng |-> rng]
           extra == AddExtraClues(opts.extraClues, mp.clueCells, blocks.active,
                                  blocks.activeSet, seed, blocks.rng)
       IN  /\ puzzle' = [solution |-> board, puzzleClues |-> GridOf(extra.active)]
           /\ mp' = [mp EXCEPT !.minimized = mp.active, !.afterBlocks = blocks.active,
                               !.active = extra.active]
           /\ rng' = extra.rng
    /\ pc' = "puzzle"
    /\ UNCHANGED <<others, table, seed, opts, board, grid, origin, clues, cap, count, solved,
                   base, search>>

\* the extraClues test: the puzzle made with extraClues = 0 is kept, and
\* makePuzzle runs again on a source of the same seed with extraClues = n;
\* with n = 0 the two calls are given the same options
RunAgainWithExtra(n) ==
    /\ pc = "puzzle"
    /\ ~base.made
    /\ opts.given.extraClues = Number(0)
    /\ base' = [made |-> TRUE, solution |-> puzzle.solution,
                puzzleClues |-> puzzle.puzzleClues, nonEmptyBlocks |-> opts.nonEmptyBlocks]
    /\ opts' = [opts EXCEPT !.extraClues = n, !.given.extraClues = Number(2 * n)]
    /\ search' = gen_start(seed, 0)
    /\ table' = gen_tableAfter(search'.rows)
    /\ rng' = PatternsPerRowCalls
    /\ mp' = NoMp
    /\ puzzle' = NoPuzzle
    /\ pc' = "mp_generateBoard"
    /\ UNCHANGED <<others, seed, board, grid, origin, clues, cap, count, solved>>

-----------------------------------------------------------------------------
(* The game screens: RootApp (part_000) and the earlier App (part_001) *)

MaxTaps == 3      \* cell presses per game

\* createEmptyPlayerBoard(): every cell 0 (unknown)
createEmptyPlayerBoard == [r \in Idx |-> [c \in Idx |-> 0]]

\* genParamsForPool(id) for id = easy, medium, hard, as makePuzzle options
genParamsForPool ==
    { [extraClues |-> Number(2 * 3), nonEmptyBlocks |-> Bool(TRUE), dense |-> Absent],
      [extraClues |-> Number(2 * 1), nonEmptyBlocks |-> Bool(TRUE), dense |-> Absent],
      [extraClues |-> Number(2 * 0), nonEmptyBlocks |-> Bool(FALSE), dense |-> Absent] }

\* RootApp's generatePuzzleForDifficulty: startGameWithPuzzle(p, "generated")
\* once makePuzzle has returned p.  violationsOf is the board handed to
\* computeViolations.
StartGameRootApp ==
    /\ pc = "puzzle"
    /\ ~base.made
    /\ opts.given \in genParamsForPool
    /\ ui' = [NoUi EXCEPT !.app = "RootApp", !.playerBoard = createEmptyPlayerBoard,
                          !.violationsOf = createEmptyPlayerBoard]
    /\ pc' = "game"
    /\ UNCHANGED <<blockSize, earlier, numbers, table, seed, rng, opts, board, grid, origin, clues,
                   cap, count, solved, mp, puzzle, base, search>>

\* App's generateNewPuzzle: setPuzzle(p), setPlayerBoard(createEmptyPlayerBoard())
\* once makePuzzle() has returned p
StartGameApp ==
    /\ pc = "puzzle"
    /\ ~base.made
    /\ opts.given = NoOptions
    /\ ui' = [NoUi EXCEPT !.app = "App", !.playerBoard = createEmptyPlayerBoard]
    /\ pc' = "game"
    /\ UNCHANGED <<blockSize, earlier, numbers, table, seed, rng, opts, board, grid, origin, clues,
                   cap, count, solved, mp, puzzle, base, search>>

\* RootApp's cycle: 0 becomes -1, -1 becomes 1, anything else 0
RootAppNextVal(current) == IF current = 0 THEN -1 ELSE IF current = -1 THEN 1 ELSE 0

\* App's cycle: 0 becomes 1, 1 becomes -1, anything else 0
AppNextVal(current) == IF current = 0 THEN 1 ELSE IF current = 1 THEN -1 ELSE 0

\* handleCellPress(r, c) of either screen: nothing on a clue cell or while
\* the solution is shown; else the status is cleared and the cell moves on
\* in the cycle.  RootApp also pushes the previous board onto history,
\* empties future and recomputes the violations.
handleCellPress(r, c) ==
    /\ pc = "game"
    /\ ui.taps < MaxTaps
    /\ puzzle.puzzleClues[r][c] = Null
    /\ ~ui.showSolution
    /\ LET current == ui.playerBoard[r][c]
           nextVal == IF ui.app = "RootApp" THEN RootAppNextVal(current)
                      ELSE AppNextVal(current)
           nextBoard == [ui.playerBoard EXCEPT ![r][c] = nextVal]
       IN  ui' = IF ui.app = "RootApp"
                 THEN [ui EXCEPT !.status = "", !.statusOk = "null",
                                 !.playerBoard = nextBoard,
                                 !.history = Append(@, ui.playerBoard),
                                 !.future = <<>>,
                                 !.violationsOf = nextBoard,
                                 !.taps = @ + 1]
                 ELSE [ui EXCEPT !.status = "", !.statusOk = "null",
                                 !.playerBoard = nextBoard, !.taps = @ + 1]
    /\ UNCHANGED <<blockSize, earlier, numbers, table, seed, rng, pc, opts, board, grid, origin,
                   clues, cap, count, solved, mp, puzzle, base, search>>

\* RootApp's clearBoard(): the board goes onto history, future is emptied,
\* every cell is 0 again; it counts as an edit of the game
clearBoard ==
    /\ pc = "game"
    /\ ui.app = "RootApp"
    /\ ui.taps < MaxTaps
    /\ ui' = [ui EXCEPT !.playerBoard = createEmptyPlayerBoard,
                        !.history = Append(@, ui.playerBoard),
                        !.future = <<>>,
                        !.violationsOf = createEmptyPlayerBoard,
                        !.status = "", !.statusOk = "null",
                        !.taps = @ + 1]
    /\ UNCHANGED <<blockSize, earlier, numbers, table, seed, rng, pc, opts, board, grid, origin,
                   clues, cap, count, solved, mp, puzzle, base, search>>

\* a faulty undo that drops the board it leaves instead of keeping it for redo
UndoForgetful(u) ==
    IF Len(u.history) = 0 THEN u
    ELSE [u EXCEPT !.history = SubSeq(@, 1, Len(@) - 1),
                   !.playerBoard = u.history[Len(u.history)],
                   !.violationsOf = u.history[Len(u.history)],
                   !.status = "", !.statusOk = "null"]

\* the state undo() leaves: nothing changes on an empty history; else the
\* last history entry becomes the board and the board goes onto future
Undo(u) ==
    IF Len(u.history) = 0 THEN u
    ELSE [u EXCEPT !.history = SubSeq(@, 1, Len(@) - 1),
                   !.playerBoard = u.history[Len(u.history)],
                   !.future = Append(@, u.playerBoard),
                   !.violationsOf = u.history[Len(u.history)],
                   !.status = "", !.statusOk = "null"]

\* the state redo() leaves: nothing changes on an empty future; else the
\* last future entry becomes the board and the board goes onto history
Redo(u) ==
    IF Len(u.future) = 0 THEN u
    ELSE [u EXCEPT !.future = SubSeq(@, 1, Len(@) - 1),
                   !.playerBoard = u.future[Len(u.future)],
                   !.history = Append(@, u.playerBoard),
                   !.violationsOf = u.future[Len(u.future)],
                   !.status = "", !.statusOk = "null"]

\* RootApp's undo()
undo ==
    /\ pc = "game"
    /\ ui.app = "RootApp"
    /\ ui' = Undo(ui)
    /\ UNCHANGED <<blockSize, earlier, numbers, table, seed, rng, pc, opts, board, grid, origin,
                   clues, cap, count, solved, mp, puzzle, base, search>>

\* RootApp's redo()
redo ==
    /\ pc = "game"
    /\ ui.app = "RootApp"
    /\ ui' = Redo(ui)
    /\ UNCHANGED <<blockSize, earlier, numbers, table, seed, rng, pc, opts, board, grid, origin,
                   clues, cap, count, solved, mp, puzzle, base, search>>

\* toggleShowSolution() of either screen
toggleShowSolution ==
    /\ pc = "game"
    /\ ui' = [ui EXCEPT !.showSolution = ~@, !.status = "", !.statusOk = "null"]
    /\ UNCHANGED <<blockSize, earlier, numbers, table, seed, rng, pc, opts, board, grid, origin,
                   clues, cap, count, solved, mp, puzzle, base, search>>

\* the cells the player presses: the first row
TapCells == {0} \X Idx

-----------------------------------------------------------------------------
(* The two systems *)

\* the options makePuzzle is called with: extraClues and nonEmptyBlocks as the
\* tests give them, none as App does, the generateBoard test's {dense: true},
\* and extraClues values that are negative, fractional or NaN
OptionsGiven ==
    { [extraClues |-> Number(2 * e), nonEmptyBlocks |-> Bool(nb), dense |-> Absent] :
          e \in 0 .. MaxExtra, nb \in BOOLEAN }
    \cup { NoOptions, [NoOptions EXCEPT !.dense = Bool(TRUE)] }
    \cup { [NoOptions EXCEPT !.extraClues = x] :
              x \in {Number(-2), Number(-1), Number(1), Number(2 * MaxExtra + 1), NotANumber} }

\* generateBoard, the two solvers and the fixtures around them
Engine ==
    \/ \E s \in 0 .. MaxSeed : CallGenerateBoard(s)
    \/ StepGenerateBoard
    \/ ReturnGenerateBoard
    \/ GenerateBoardAgain
    \/ FullClueGrid
    \/ \E r \in Idx : ClearRow(r)
    \/ \E r \in Idx : EditClue(r, 1)
    \/ ImpossibleClue
    \/ CluesToMap
    \/ \E m \in HandMaps : HandMap(m)
    \/ \E k \in {1, Len(clues)}, key \in MalformedKeys : CorruptKey(k, key)
    \/ \E c \in 0 .. MaxCap : CallSolveCount(Num(c))
    \/ StepSolveCount
    \/ ReturnSolveCount
    \/ \E r \in Idx : CountAgainWithoutRow(r)
    \/ CountSolvedGrid
    \/ CallSolveOne
    \/ StepSolveOne
    \/ ReturnSolveOne

\* makePuzzle, the pool loader and the call that leaves maxSolutions out
Puzzles ==
    \/ \E s \in 0 .. MaxSeed, options \in OptionsGiven : CallMakePuzzle(s, options)
    \/ mp_AfterGenerate
    \/ mp_CallSolveCount
    \/ mp_ReturnSolveCount
    \/ mp_Finish
    \/ \E n \in 0 .. MaxExtra : RunAgainWithExtra(n)
    \/ LoadPuzzle
    \/ CallSolveCount(Undefined)
    \/ StartGameRootApp
    \/ StartGameApp
    \/ \E rc \in TapCells : handleCellPress(rc[1], rc[2])
    \/ clearBoard
    \/ undo
    \/ redo
    \/ toggleShowSolution

Next == Engine

Spec == Init /\ [][Next]_vars

NextSmall == Engine \/ Puzzles

SpecSmall == InitSmall /\ [][NextSmall]_vars

-----------------------------------------------------------------------------
(* Board generation alone, run to its end *)

\* generateBoard on its own and as the first step of makePuzzle, on both sizes
InitGenerate == \E size \in {SmallBlockSize, FullBlockSize} : InitAt(size)

NextGenerate ==
    \/ \E s \in 0 .. MaxSeed : CallGenerateBoard(s)
    \/ StepGenerateBoard
    \/ ReturnGenerateBoard
    \/ \E s \in 0 .. MaxSeed, options \in {NoOptions, [NoOptions EXCEPT !.dense = Bool(TRUE)]} :
           CallMakePuzzle(s, options)
    \/ mp_AfterGenerate

\* a search that has begun runs on, and generateBoard returns once its
\* search is over: the code is sequential and nothing suspends it
SpecGenerate ==
    /\ InitGenerate /\ [][NextGenerate]_vars
    /\ WF_vars(StepGenerateBoard)
    /\ WF_vars(ReturnGenerateBoard)

-----------------------------------------------------------------------------
(* What the claims speak of, stated without the engine's own helpers *)

Cells == Idx \X Idx

RowCells(r) == {rc \in Cells : rc[1] = r}
ColCells(c) == {rc \in Cells : rc[2] = c}
BlockCells(br, bc) ==
    {rc \in Cells : rc[1] \div blockSize = br /\ rc[2] \div blockSize = bc}
BlockIdx == 0 .. blockSize - 1

MarksIn(b, cells) == Cardinality({rc \in cells : b[rc[1]][rc[2]] = 1})

\* an N x N grid of 0/1 values
IsGrid01(b) ==
    /\ DOMAIN b = Idx
    /\ \A r \in Idx : DOMAIN b[r] = Idx /\ \A c \in Idx : b[r][c] \in {0, 1}

\* exactly 3 marks in every row, column and block
ExactThree(b) ==
    /\ IsGrid01(b)
    /\ \A r \in Idx : MarksIn(b, RowCells(r)) = PerUnit
    /\ \A c \in Idx : MarksIn(b, ColCells(c)) = PerUnit
    /\ \A br \in BlockIdx, bc \in BlockIdx : MarksIn(b, BlockCells(br, bc)) = PerUnit

\* the 8-neighbours of a cell that lie in the grid
Around(r, c) ==
    {rc \in ((r - 1 .. r + 1) \cap Idx) \X ((c - 1 .. c + 1) \cap Idx) : rc # <<r, c>>}

\* board b has no mark on cell (r, c) and exactly v marked neighbours of it
MeetsClue(b, r, c, v) == b[r][c] = 0 /\ MarksIn(b, Around(r, c)) = v

\* board b satisfies every clue of grid g
MeetsGrid(b, g) == \A rc \in Cells : g[rc[1]][rc[2]] # Null =>
                        MeetsClue(b, rc[1], rc[2], g[rc[1]][rc[2]][1])

ClueCount(g) == Cardinality({rc \in Cells : g[rc[1]][rc[2]] # Null})

\* every key of Map m names a cell of the grid
WellFormed(m) ==
    \A k \in 1 .. Len(m) :
        LET rc == parseCellKey(m[k].key)
        IN  ~IsNaN(rc.r) /\ ~IsNaN(rc.c) /\ rc.r[1] \in Idx /\ rc.c[1] \in Idx

\* board b satisfies every entry of the well-formed Map m
MeetsMap(b, m) ==
    \A k \in 1 .. Len(m) :
        LET rc == parseCellKey(m[k].key) IN MeetsClue(b, rc.r[1], rc.c[1], m[k].v)

\* Every exact board of the 4x4 instance, by exhaustive enumeration: rows of
\* two marks, then the columns and the blocks.
SmallN == SmallBlockSize * SmallBlockSize
SmallRows ==
    {row \in [0 .. SmallN - 1 -> {0, 1}] :
        Cardinality({c \in 0 .. SmallN - 1 : row[c] = 1}) = SmallBlockSize}
SmallFilteredBoards ==
    {b \in [0 .. SmallN - 1 -> SmallRows] :
        /\ \A c \in 0 .. SmallN - 1 :
              Cardinality({r \in 0 .. SmallN - 1 : b[r][c] = 1}) = SmallBlockSize
        /\ \A br \in 0 .. SmallBlockSize - 1, bc \in 0 .. SmallBlockSize - 1 :
              Cardinality({rc \in (0 .. SmallN - 1) \X (0 .. SmallN - 1) :
                  /\ rc[1] \div SmallBlockSize = br
                  /\ rc[2] \div SmallBlockSize = bc
                  /\ b[rc[1]][rc[2]] = 1}) = SmallBlockSize}

SmallExactBoards == {b : b \in SmallFilteredBoards}

\* K: the number of exact boards that satisfy Map m
K(m) == Cardinality({b \in SmallExactBoards : MeetsMap(b, m)})

Min(a, b) == IF a < b THEN a ELSE b

\* the cap a call with argument `arg` runs under
CapOf(arg) == IF arg = Undefined THEN 2 ELSE arg[1]

FullUnedited == origin = [from |-> "full", edited |-> FALSE]
PuzzleUnedited == origin = [from |-> "puzzle", edited |-> FALSE]

-----------------------------------------------------------------------------
(* The claims *)

\* C1: the board generateBoard returns is a 9x9 grid of 0/1 values with
\* exactly 3 marks in every row, every column and every 3x3 block, 27 marks
\* in all, whatever the random source.
C1_GeneratedBoardValid ==
    pc = "board" => ExactThree(board) /\ MarksIn(board, Cells) = 27

C1_Witness == pc = "board" /\ seed > 0 /\ MarksIn(board, Cells) = 27

\* C2: the puzzle makePuzzle returns is uniquely solvable: solveCount of its
\* puzzleClues with cap 2 returns exactly 1, for every source, every
\* extraClues >= 0 and either nonEmptyBlocks.
C2_PuzzleUnique ==
    pc = "counted" /\ PuzzleUnedited /\ cap = Num(2) =>
        count = [threw |-> FALSE, n |-> 1]

C2_Witness ==
    /\ pc = "counted" /\ PuzzleUnedited /\ cap = Num(2)
    /\ opts.extraClues > 0 /\ opts.nonEmptyBlocks
    /\ count.n = 1

\* C3: for a well-formed clue Map and a cap >= 0, solveCount returns
\* min(cap, K), K the number of exact boards with no mark on a clue cell and
\* every clue cell's marked 8-neighbours equal to its value; a cap left out
\* is 2.  The pruned search agrees with exhaustive enumeration.
C3_CountIsMinCapK ==
    pc = "counted" /\ WellFormed(clues) =>
        ~count.threw /\ count.n = Min(CapOf(cap), K(clues))

C3_Witness ==
    /\ pc = "counted" /\ WellFormed(clues) /\ Len(clues) > 0
    /\ CapOf(cap) > 1 /\ K(clues) > CapOf(cap)
    /\ count.n = CapOf(cap)

\* C4: the full clue set of a generated board (computeClues on every empty
\* cell, nothing on marked cells) has exactly one solution:
\* solveCount(fullClues, 2) returns 1.
C4_FullCluesUnique ==
    pc = "counted" /\ FullUnedited /\ cap = Num(2) =>
        count = [threw |-> FALSE, n |-> 1]

C4_Witness ==
    /\ pc = "counted" /\ FullUnedited /\ cap = Num(2)
    /\ clues = cluesToMap(fullClueGridForBoard(board))
    /\ count.n = 1

\* C5: solveOneFromClueGrid of the full clue grid of a generated board
\* returns a board, and that board is the generated one cell for cell.
C5_FullGridReconstructs ==
    pc = "solved" /\ FullUnedited => ~solved.isNull /\ solved.board = board

C5_Witness ==
    /\ pc = "solved" /\ FullUnedited
    /\ grid = fullClueGridForBoard(board)
    /\ solved.board = board

\* C6: solveOneFromClueGrid of the puzzleClues of a puzzle makePuzzle
\* returned gives a board identical to the puzzle's solution, for every
\* option combination and source.
C6_PuzzleReconstructs ==
    pc = "solved" /\ PuzzleUnedited =>
        ~solved.isNull /\ solved.board = puzzle.solution

C6_Witness ==
    /\ pc = "solved" /\ PuzzleUnedited
    /\ opts.extraClues = MaxExtra /\ opts.nonEmptyBlocks
    /\ grid = puzzle.puzzleClues
    /\ solved.board = puzzle.solution

\* C7: solveOneFromClueGrid never raises; on a clue grid some board satisfies
\* it returns an exact board with no mark on a clue cell and every clue
\* matched, and on a clue grid no board satisfies it returns null.
C7_SolveOneBoardOrNull ==
    /\ search.fn = "solveOne" => search.phase # "threw"
    /\ pc = "solved" =>
          IF \E b \in SmallExactBoards : MeetsGrid(b, grid)
          THEN ~solved.isNull /\ ExactThree(solved.board) /\ MeetsGrid(solved.board, grid)
          ELSE solved.isNull

C7_Witness ==
    /\ pc = "solved" /\ origin.edited
    /\ ~(\E b \in SmallExactBoards : MeetsGrid(b, grid))
    /\ solved.isNull

\* C8: solveCount never throws, whatever the clue Map and the cap: every
\* call returns a count between 0 and the cap, also for Maps whose keys are
\* malformed or out of range.
C8_SolveCountNeverThrows ==
    /\ search.fn = "solveCount" => search.phase # "threw"
    /\ pc = "counted" => ~count.threw /\ count.n \in 0 .. CapOf(cap)

\* C9: with nonEmptyBlocks true every 3x3 block of the returned puzzleClues
\* holds at least one clue, for every source and every extraClues.
C9_EveryBlockHasClue ==
    pc = "puzzle" /\ opts.nonEmptyBlocks =>
        \A br \in BlockIdx, bc \in BlockIdx :
            \E rc \in BlockCells(br, bc) : puzzle.puzzleClues[rc[1]][rc[2]] # Null

C9_Witness ==
    /\ pc = "puzzle" /\ opts.nonEmptyBlocks
    /\ Len(mp.afterBlocks) > Len(mp.minimized)
    /\ \A br \in BlockIdx, bc \in BlockIdx :
          \E rc \in BlockCells(br, bc) : puzzle.puzzleClues[rc[1]][rc[2]] # Null

\* C10: of two makePuzzle runs on the same random values and the same
\* nonEmptyBlocks, one with extraClues = 0 and one with extraClues = n, the
\* second has at least n clues more than the first when the first left at
\* least n candidates removed.
C10_ExtraAddsAtLeastN ==
    pc = "puzzle" /\ base.made
       /\ Len(mp.clueCells) - ClueCount(base.puzzleClues) >= opts.extraClues =>
        ClueCount(puzzle.puzzleClues) >= ClueCount(base.puzzleClues) + opts.extraClues

C10_Witness ==
    /\ pc = "puzzle" /\ base.made /\ opts.extraClues = MaxExtra
    /\ base.nonEmptyBlocks = opts.nonEmptyBlocks
    /\ Len(mp.clueCells) - ClueCount(base.puzzleClues) >= opts.extraClues
    /\ ClueCount(puzzle.puzzleClues) >= ClueCount(base.puzzleClues) + opts.extraClues

\* every clue of the list lies on a cell board b leaves empty, and its value
\* is the number of marks of b around that cell
OnEmptyCells(b, cells) ==
    \A k \in 1 .. Len(cells) : MeetsClue(b, cells[k].r, cells[k].c, cells[k].v)

\* C11: in every puzzle makePuzzle returns, a clue lies only on a cell the
\* solution leaves empty and its value is the number of marked neighbours of
\* that cell in the solution; so it is after the removal loop, after the
\* nonEmptyBlocks step and after the extraClues step.
C11_CluesOnlyOnEmptyCells ==
    pc = "puzzle" =>
        /\ MeetsGrid(puzzle.solution, puzzle.puzzleClues)
        /\ OnEmptyCells(puzzle.solution, mp.minimized)
        /\ OnEmptyCells(puzzle.solution, mp.afterBlocks)
        /\ OnEmptyCells(puzzle.solution, mp.active)

C11_Witness ==
    /\ pc = "puzzle" /\ opts.nonEmptyBlocks /\ opts.extraClues = MaxExtra
    /\ 0 < Len(mp.minimized)
    /\ Len(mp.minimized) < Len(mp.afterBlocks)
    /\ Len(mp.afterBlocks) < Len(mp.active)
    /\ ClueCount(puzzle.puzzleClues) = Len(mp.active)
    /\ OnEmptyCells(puzzle.solution, mp.active)

\* how many neighbours a cell has in the grid: 3 on a corner, 5 on the rest
\* of the border, 8 inside
NeighbourLimit(r, c) ==
    LET onRowBorder == r = 0 \/ r = N - 1
        onColBorder == c = 0 \/ c = N - 1
    IN  IF onRowBorder /\ onColBorder THEN 3
        ELSE IF onRowBorder \/ onColBorder THEN 5
        ELSE 8

\* some entry of Map m asks a cell of the grid for more marked neighbours
\* than the cell has neighbours
HasImpossibleClue(m) ==
    \E k \in 1 .. Len(m) :
        LET rc == parseCellKey(m[k].key)
        IN  /\ ~IsNaN(rc.r) /\ ~IsNaN(rc.c) /\ rc.r[1] \in Idx /\ rc.c[1] \in Idx
            /\ m[k].v > NeighbourLimit(rc.r[1], rc.c[1])

\* C12: if a clue asks for more marked neighbours than its cell has
\* neighbours in the grid (more than 3 on a corner, 5 on the border, 8
\* inside), solveCount returns 0, whatever the other clues and the cap are.
C12_ImpossibleClueCountsZero ==
    pc = "counted" /\ HasImpossibleClue(clues) => ~count.threw /\ count.n = 0

C12_Witness ==
    /\ pc = "counted" /\ HasImpossibleClue(clues)
    /\ origin.from = "full" /\ origin.edited /\ Len(clues) > N
    /\ cap = Num(MaxCap)
    /\ count.n = 0

\* an extraClues value that is negative or not an integer
BadExtraClues(x) ==
    \/ x.kind = "NaN"
    \/ x.kind = "number" /\ (x.twice < 0 \/ x.twice % 2 = 1)

\* C13: makePuzzle called with an extraClues that is negative or not an
\* integer raises its configuration error before a board is generated, a
\* random value is drawn or a search is run; with a valid value the error
\* is not raised.
C13_BadExtraCluesRejectedFirst ==
    /\ BadExtraClues(opts.given.extraClues) =>
          /\ pc = "rejected"
          /\ rng = 0 /\ search = Idle
          /\ board = <<>> /\ mp = NoMp /\ puzzle = NoPuzzle
    /\ pc = "rejected" => BadExtraClues(opts.given.extraClues)

C13_Witness ==
    /\ pc = "rejected"
    /\ opts.given.extraClues = Number(1)
    /\ rng = 0 /\ search = Idle

\* C14: for every 0/1 board, valid or not, and every cell, marked or empty,
\* computeClues reports the number of marked cells among the neighbours of
\* the cell that lie in the grid, the cell itself left out; with marks at
\* (1,1), (1,2), (2,1) that is 3 at (2,2), 1 at (0,0) and 2 at (1,1).  The
\* board handed in is left as it was.
C14_ComputeCluesCountsNeighbours ==
    [][pc' = "clues" =>
         /\ board' = board
         /\ \A rc \in Cells : numbers'[rc[1]][rc[2]] = MarksIn(board, Around(rc[1], rc[2]))
         /\ {<<1, 1>>, <<1, 2>>, <<2, 1>>} = {rc \in Cells \ {<<0, N - 1>>} : board[rc[1]][rc[2]] = 1}
               => numbers'[2][2] = 3 /\ numbers'[0][0] = 1 /\ numbers'[1][1] = 2]_vars

C14_Witness ==
    /\ pc = "clues" /\ blockSize = FullBlockSize
    /\ {rc \in Cells : board[rc[1]][rc[2]] = 1} = {<<1, 1>>, <<1, 2>>, <<2, 1>>, <<0, N - 1>>}
    /\ numbers[2][2] = 3 /\ numbers[0][0] = 1 /\ numbers[1][1] = 2

\* C15: for every 0/1 board and every cell, the value computeClues reports
\* lies between 0 and the number of neighbours the cell has in the grid: at
\* most 3 on a corner, 5 on the rest of the border, 8 inside.
C15_ComputeCluesWithinNeighbours ==
    pc = "clues" =>
        \A rc \in Cells : numbers[rc[1]][rc[2]] \in 0 .. NeighbourLimit(rc[1], rc[2])

C15_Witness ==
    /\ pc = "clues" /\ blockSize = FullBlockSize
    /\ numbers[0][0] = 3 /\ numbers[0][1] = 5 /\ numbers[1][1] = 8

\* C16: the row-pattern table holds exactly 84 patterns, no two the same,
\* each of length 9 with three 1s and six 0s, and every 0/1 vector of length
\* 9 with exactly three 1s is among them.  Stated of the table as the module
\* builds it and as a generateBoard call leaves it.
C16_RowPatternTable ==
    pc \in {"start", "board"} =>
        /\ Len(table) = 84
        /\ \A j, k \in 1 .. Len(table) : j # k => table[j] # table[k]
        /\ \A k \in 1 .. Len(table) :
              /\ DOMAIN table[k] = 0 .. 8
              /\ Cardinality({p \in 0 .. 8 : table[k][p] = 1}) = 3
              /\ Cardinality({p \in 0 .. 8 : table[k][p] = 0}) = 6
        /\ \A ones \in {S \in SUBSET (0 .. 8) : Cardinality(S) = 3} :
              \E k \in 1 .. Len(table) : \A p \in 0 .. 8 : table[k][p] = 1 <=> p \in ones

C16_Witness ==
    /\ pc = "board"
    /\ Len(table) = 84
    /\ \E k \in 1 .. Len(table) : \A p \in 0 .. 8 : table[k][p] = 1 <=> p \in {6, 7, 8}

C18_DenseHasManyClues ==
    pc = "puzzle" /\ opts.given.dense = Bool(TRUE) =>
        /\ blockSize = FullBlockSize => ClueCount(puzzle.puzzleClues) >= 22
        /\ \A br \in BlockIdx, bc \in BlockIdx :
              \E rc \in BlockCells(br, bc) : puzzle.puzzleClues[rc[1]][rc[2]] # Null

\* the player's marks: blank, blueberry, marked empty
Blank == 0
Blueberry == 1
MarkedEmpty == -1

\* C19: on the game screen a press on a cell that holds no clue, the
\* solution hidden, moves the cell from blank to blueberry, from blueberry
\* to marked empty and from marked empty to blank, so that three presses
\* bring it back.
C19_TapCycle ==
    [][pc = "game" /\ ui'.taps = ui.taps + 1 =>
         \A rc \in Cells :
             LET before == ui.playerBoard[rc[1]][rc[2]]
                 after == ui'.playerBoard[rc[1]][rc[2]]
             IN  after # before =>
                     /\ puzzle.puzzleClues[rc[1]][rc[2]] = Null /\ ~ui.showSolution
                     /\ <<before, after>> \in {<<Blank, Blueberry>>, <<Blueberry, MarkedEmpty>>,
                                               <<MarkedEmpty, Blank>>}]_vars

\* this step, an invocation of backtrack returns to its caller
InvocationReturns ==
    /\ search.fn \in {"generateBoard", "solveCount", "solveOne"}
    /\ search'.fn = search.fn
    /\ Len(search'.stack) = Len(search.stack) - 1

\* the counters after the step are those the returning invocation was entered with
CountersAsEntered ==
    /\ search'.colCounts = Top(search).entry.colCounts
    /\ search'.blockCounts = Top(search).entry.blockCounts

\* C20 as stated: in generateBoard, solveCount and solveOneFromClueGrid
\* every invocation of backtrack(r) returns with the column and block
\* counters as they were when it was entered, on every path, a subtree
\* that found a solution included.
C20_CountersRestoredOnEveryPath ==
    [][InvocationReturns => CountersAsEntered]_vars

\* C20 as amended: an invocation that returns without a solution (false,
\* null, or any return of solveCount) leaves the counters as they were when
\* it was entered; an invocation of generateBoard or solveOneFromClueGrid
\* that returns a solution leaves the counters as it finds them, the rows of
\* the solution still counted.
C20_CountersRestoredUnlessFound ==
    [][InvocationReturns =>
         IF search'.ret
         THEN /\ search.fn # "solveCount"
              /\ search'.colCounts = search.colCounts
              /\ search'.blockCounts = search.blockCounts
         ELSE CountersAsEntered]_vars

\* a subtree of solveCount that counted a solution has returned, and the
\* counters are those of the caller's row again
C20_Witness ==
    /\ search.fn = "solveCount" /\ search.phase = "return" /\ search.solutions = 1
    /\ Top(search).r = N - 1
    /\ search.colCounts = [c \in Idx |-> PerUnit]
    /\ search.colCounts =
          [c \in Idx |-> Top(search).entry.colCounts[c] + TopRow(search)[c]]

\* how many exact boards of the 4x4 instance meet every clue of the list
KCells(cells) == Cardinality({b \in SmallExactBoards : OnEmptyCells(b, cells)})

\* the list without its entry k
Dropped(cells, k) == SubSeq(cells, 1, k - 1) \o SubSeq(cells, k + 1, Len(cells))

\* C21: the clue set the removal loop of makePuzzle leaves, before any
\* clue is put back, is locally irreducible: without any one of its clues
\* the number of solutions is not 1, whatever the removal order was.
C21_MinimizedIsIrreducible ==
    pc = "puzzle" =>
        \A k \in 1 .. Len(mp.minimized) : KCells(Dropped(mp.minimized, k)) # 1

C21_Witness ==
    /\ pc = "puzzle" /\ opts.extraClues = 0 /\ ~opts.nonEmptyBlocks
    /\ Len(mp.minimized) >= 2 /\ Len(mp.minimized) < Len(mp.clueCells)
    /\ ClueCount(puzzle.puzzleClues) = Len(mp.minimized)
    /\ \A k \in 1 .. Len(mp.minimized) : KCells(Dropped(mp.minimized, k)) >= 2

\* every entry of Map a is an entry of Map b
SubMap(a, b) == \A j \in 1 .. Len(a) : \E k \in 1 .. Len(b) : a[j] = b[k]

\* C22: adding clues is monotone.  For clue Maps A within B and the same
\* cap, solveCount of B is at most solveCount of A; and putting candidates
\* back, with the values of the solution board, into a clue set that has
\* exactly one solution leaves it with exactly one solution.
C22_AddingCluesIsMonotone ==
    /\ pc = "counted" /\ earlier.made /\ SubMap(clues, earlier.clues) =>
          ~count.threw /\ earlier.n <= count.n
    /\ pc = "puzzle" /\ KCells(mp.minimized) = 1 =>
          KCells(mp.afterBlocks) = 1 /\ KCells(mp.active) = 1

C22_Witness ==
    /\ pc = "counted" /\ earlier.made
    /\ origin.from = "puzzle"
    /\ Len(clues) < Len(earlier.clues) /\ SubMap(clues, earlier.clues)
    /\ earlier.n = 1 /\ count.n = MaxCap

\* every clue of a clue list lies in the grid
ListInGrid(clueList) ==
    \A k \in 1 .. Len(clueList) :
        /\ ~IsNaN(clueList[k].r) /\ ~IsNaN(clueList[k].c)
        /\ clueList[k].r[1] \in Idx /\ clueList[k].c[1] \in Idx

\* the search is at a candidate row that passed the row, band and column
\* tests, which is where checkCluesPartial is called
AtClueCheck(fn) ==
    /\ Running(fn) /\ search.phase = "loop"
    /\ Top(search).i <= Len(search.rows[Top(search).r + 1])
    /\ RowOk(TopRow(search), Top(search).r, search.colCounts, search.blockCounts)
    /\ LET applied == Applied(search, TopRow(search), Top(search).r)
       IN  /\ ~BandFails(Top(search).r, applied.blockCounts)
           /\ ColumnsFeasible(Top(search).r, applied.colCounts)

\* the board the check is called on, and what the check answers
CheckedRows == [search.boardRows EXCEPT ![Top(search).r] = TopRow(search)]
CheckAccepts ==
    IF search.fn = "solveCount"
    THEN sc_checkCluesPartial(search.clueList, CheckedRows, Top(search).r)
    ELSE so_checkCluesPartial(search.clueList, CheckedRows, Top(search).r)

\* confirmed: the marks among a clue's neighbours in rows <= r;
\* remainingSlots: its neighbours in rows > r
ConfirmedMarks(b, cl, r) ==
    MarksIn(b, {rc \in Around(cl.r[1], cl.c[1]) : rc[1] <= r})
RemainingSlots(cl, r) ==
    Cardinality({rc \in Around(cl.r[1], cl.c[1]) : rc[1] > r})
Infeasible(b, cl, r) ==
    LET confirmed == ConfirmedMarks(b, cl, r)
        remainingSlots == RemainingSlots(cl, r)
    IN  \/ confirmed > cl.v
        \/ confirmed + remainingSlots < cl.v
        \/ remainingSlots = 0 /\ confirmed # cl.v

\* an exact board that agrees with b on rows 0..r and satisfies every clue
Completes(full, b, r, clueList) ==
    /\ \A row \in 0 .. r : full[row] = b[row]
    /\ \A k \in 1 .. Len(clueList) :
          MeetsClue(full, clueList[k].r[1], clueList[k].c[1], clueList[k].v)

\* C23: with rows 0..r committed, the clue-feasibility check rejects exactly
\* when some clue has confirmed > target, or confirmed + remainingSlots <
\* target, or remainingSlots = 0 and confirmed # target; and it never
\* rejects the prefix of a board that satisfies every constraint.
C23_PartialCheckExactAndSound ==
    (AtClueCheck("solveCount") \/ AtClueCheck("solveOne")) /\ ListInGrid(search.clueList) =>
        LET b == CheckedRows
            accepts == CheckAccepts
        IN  /\ accepts <=>
                  ~\E k \in 1 .. Len(search.clueList) :
                      Infeasible(b, search.clueList[k], Top(search).r)
            /\ accepts \/ ~\E full \in SmallExactBoards :
                              Completes(full, b, Top(search).r, search.clueList)

\* the check rejects a candidate row that leaves a clue short of its value
C23_Witness ==
    /\ AtClueCheck("solveCount") /\ ListInGrid(search.clueList)
    /\ Top(search).r < N - 1
    /\ ~CheckAccepts
    /\ \E k \in 1 .. Len(search.clueList) :
          LET cl == search.clueList[k]
          IN  /\ ConfirmedMarks(CheckedRows, cl, Top(search).r) <= cl.v
              /\ ConfirmedMarks(CheckedRows, cl, Top(search).r)
                     + RemainingSlots(cl, Top(search).r) < cl.v

\* backtrack has just been entered with r = N
AtFullDepth(fn) == Running(fn) /\ search.phase = "enter" /\ Top(search).r = N

\* clue cl names a cell of the grid
InGrid(cl) ==
    /\ ~IsNaN(cl.r) /\ ~IsNaN(cl.c)
    /\ cl.r[1] \in Idx /\ cl.c[1] \in Idx

\* what the defensive re-validation of the clues answers
FullDepthClueAnswer ==
    IF search.fn = "solveCount" THEN sc_checkCluesFull(search.clueList, search.boardRows)
    ELSE so_checkCluesFull(search.clueList, search.boardRows)

\* C24: whenever backtrack is entered with r = 9, in generateBoard, in
\* solveCount or in solveOneFromClueGrid, all nine column counters are 3,
\* all nine block counters are 3 and every in-grid clue is matched exactly,
\* so the re-validation at full depth never rejects.
C24_FullDepthIsConsistent ==
    /\ AtFullDepth("generateBoard") =>
          /\ \A c \in Idx : search.colCounts[c] = 3
          /\ \A b \in Idx : search.blockCounts[b] = 3
          /\ AllCountsExact(search.colCounts, search.blockCounts)
    /\ AtFullDepth("solveCount") \/ AtFullDepth("solveOne") =>
          /\ \A c \in Idx : search.colCounts[c] = 3
          /\ \A b \in Idx : search.blockCounts[b] = 3
          /\ \A k \in 1 .. Len(search.clueList) :
                InGrid(search.clueList[k]) =>
                    MarksIn(search.boardRows,
                            Around(search.clueList[k].r[1], search.clueList[k].c[1]))
                        = search.clueList[k].v
          /\ FullDepthClueAnswer # "false"

\* full depth in solveCount on the full clues of a generated 9x9 board
C24_Witness ==
    /\ AtFullDepth("solveCount") /\ N = 9
    /\ FullUnedited
    /\ Len(search.clueList) > 0
    /\ \A k \in 1 .. Len(search.clueList) : InGrid(search.clueList[k])
    /\ FullDepthClueAnswer = "true"

\* the candidates of clueCells that have no clue in list `cells`
Inactive(clueCells, cells) ==
    {k \in 1 .. Len(clueCells) :
        ~\E j \in 1 .. Len(cells) :
            cells[j].r = clueCells[k].r /\ cells[j].c = clueCells[k].c}

\* no two clues of the list lie on the same cell
DistinctCells(cells) ==
    \A j, k \in 1 .. Len(cells) :
        j # k => ~(cells[j].r = cells[k].r /\ cells[j].c = cells[k].c)

\* C25: with extraClues = n > 0 makePuzzle reinstates exactly min(n, M)
\* distinct clues, M the number of candidates still inactive after the
\* nonEmptyBlocks step; no clue is added twice and no active clue is
\* changed, so the final clue count is the count after the nonEmptyBlocks
\* step plus min(n, M), and never more than the number of empty cells.
C25_ExtraCluesAddsMinNM ==
    pc = "puzzle" /\ opts.extraClues > 0 =>
        LET M == Cardinality(Inactive(mp.clueCells, mp.afterBlocks))
            added == Min(opts.extraClues, M)
        IN  /\ Len(mp.active) = Len(mp.afterBlocks) + added
            /\ SubSeq(mp.active, 1, Len(mp.afterBlocks)) = mp.afterBlocks
            /\ DistinctCells(mp.active)
            /\ \A k \in Len(mp.afterBlocks) + 1 .. Len(mp.active) :
                  \E j \in 1 .. Len(mp.clueCells) : mp.active[k] = mp.clueCells[j]
            /\ ClueCount(puzzle.puzzleClues) = Len(mp.afterBlocks) + added
            /\ ClueCount(puzzle.puzzleClues) <= Cardinality(Cells) - MarksIn(puzzle.solution, Cells)

\* more clues are asked for than candidates are left, and all of them return
C25_Witness ==
    /\ pc = "puzzle" /\ opts.extraClues = MaxExtra
    /\ Cardinality(Inactive(mp.clueCells, mp.afterBlocks)) \in 1 .. MaxExtra - 1
    /\ Len(mp.active) = Len(mp.clueCells)
    /\ Len(mp.active) > Len(mp.afterBlocks)

\* solveCount, run with cap 1 on the grid solveOneFromClueGrid was given, is
\* about to count its first board
AboutToCountFirst ==
    /\ pc = "recount" /\ AtFullDepth("solveCount")
    /\ search.solutions = 0
    /\ AllCountsExact(search.colCounts, search.blockCounts)
    /\ FullDepthClueAnswer = "true"

\* C26: solveOneFromClueGrid and solveCount are one search with two stopping
\* conditions: for every clue grid solveOneFromClueGrid returns a board
\* exactly when solveCount of the same clues with cap 1 returns 1, and the
\* board is the first one solveCount's traversal counts.
C26_SolveOneIsFirstCounted ==
    /\ pc = "recounted" =>
          /\ ~count.threw
          /\ ~solved.isNull <=> count.n = 1
          /\ solved.isNull <=> count.n = 0
    /\ AboutToCountFirst => ~solved.isNull /\ solved.board = search.boardRows

\* a grid with several solutions: the traversal is at its first board, and
\* that is the board solveOneFromClueGrid returned
C26_Witness ==
    /\ AboutToCountFirst
    /\ origin.edited
    /\ solved.board = search.boardRows
    /\ solved.board # board

\* the exact boards that satisfy every clue of the list
BoardsOf(cells) == {b \in SmallExactBoards : OnEmptyCells(b, cells)}

\* C27: throughout the removal loop of makePuzzle the active clue set has
\* exactly one solution, the generated board: so it is before the first
\* iteration and after every iteration, and a candidate is dropped only
\* when the set without it still has exactly one solution.
C27_LoopKeepsOneSolution ==
    /\ pc = "mp_loop" =>
          /\ BoardsOf(mp.active) = {board}
          /\ OnEmptyCells(board, mp.active)
          /\ mp.k > 1 /\ mp.active = mp.trial => Cardinality(BoardsOf(mp.trial)) = 1
    /\ pc = "mp_solveCount" /\ Finished("solveCount") /\ Accepts(search.solutions) =>
          BoardsOf(mp.trial) = {board}

\* some candidates have been dropped, one has just been kept, more follow
C27_Witness ==
    /\ pc = "mp_loop"
    /\ mp.k > 1 /\ mp.k <= Len(mp.order)
    /\ Len(mp.active) < Len(mp.clueCells)
    /\ mp.active # mp.trial
    /\ Cardinality(BoardsOf(mp.trial)) > 1
    /\ BoardsOf(mp.active) = {board}

\* C28: for every random source generateBoard terminates and returns a
\* board: the "Failed to generate a valid board" error is never reached, and
\* makePuzzle fails neither in board generation nor in its checkConstraints
\* validation.
C28_GenerateBoardReturns ==
    /\ [](pc # "failed")
    /\ [](pc = "generateBoard" /\ Finished("generateBoard") => search.ret)
    /\ [](pc = "mp_generateBoard" /\ Finished("generateBoard") =>
              search.ret /\ checkConstraints(search.boardRows))
    /\ (Running("generateBoard") ~> Finished("generateBoard"))
    /\ (pc = "generateBoard" ~> pc = "board")

\* makePuzzle is past generateBoard and checkConstraints on the 9x9 board,
\* on the source whose first answers are the out-of-range value 1
C28_Witness ==
    /\ pc = "mp_loop" /\ N = 9
    /\ seed = MaxSeed
    /\ checkConstraints(board)
    /\ Len(mp.clueCells) = N * N - N * PerUnit

\* the cells of rows 0 .. r - 1
Committed(r) == {rc \in Cells : rc[1] < r}

\* C29: whenever backtrack(r) is entered, in generateBoard, in solveCount or
\* in solveOneFromClueGrid, the counters agree with the committed rows:
\* colCounts[c] is the number of marks of column c in rows 0..r-1 of the
\* working board, blockCounts[b] the number of marks of block b in those
\* rows, every counter lies between 0 and 3, and every block of a completed
\* band holds exactly 3.
C29_CountersAgreeWithRows ==
    search.phase = "enter" /\
    (Running("generateBoard") \/ Running("solveCount") \/ Running("solveOne")) =>
        LET r == Top(search).r
        IN  /\ \A c \in Idx :
                  /\ search.colCounts[c]
                         = MarksIn(search.boardRows, ColCells(c) \cap Committed(r))
                  /\ search.colCounts[c] \in 0 .. 3
            /\ \A br \in BlockIdx, bc \in BlockIdx :
                  /\ search.blockCounts[br * blockSize + bc]
                         = MarksIn(search.boardRows, BlockCells(br, bc) \cap Committed(r))
                  /\ search.blockCounts[br * blockSize + bc] \in 0 .. 3
                  /\ (br + 1) * blockSize <= r => search.blockCounts[br * blockSize + bc] = 3

\* the edit history of a game: the board and the two stacks
Edited(u) == <<u.playerBoard, u.history, u.future>>

\* C30: in RootApp a cell tap or a clear pushes the previous board onto
\* history and empties future; undo on a non-empty history makes the last
\* history entry the board and pushes the board onto future; redo is the
\* inverse.  So undo followed by redo, and redo followed by undo, restore
\* board, history and future, and undo or redo on an empty stack change
\* nothing.
C30_UndoRedoAreInverse ==
    /\ [](pc = "game" /\ ui.app = "RootApp" =>
            /\ Len(ui.history) > 0 =>
                  /\ Undo(ui).playerBoard = ui.history[Len(ui.history)]
                  /\ Undo(ui).history = SubSeq(ui.history, 1, Len(ui.history) - 1)
                  /\ Undo(ui).future = Append(ui.future, ui.playerBoard)
                  /\ Edited(Redo(Undo(ui))) = Edited(ui)
            /\ Len(ui.future) > 0 =>
                  /\ Redo(ui).playerBoard = ui.future[Len(ui.future)]
                  /\ Redo(ui).future = SubSeq(ui.future, 1, Len(ui.future) - 1)
                  /\ Redo(ui).history = Append(ui.history, ui.playerBoard)
                  /\ Edited(Undo(Redo(ui))) = Edited(ui)
            /\ Len(ui.history) = 0 => Undo(ui) = ui
            /\ Len(ui.future) = 0 => Redo(ui) = ui)
    /\ [][pc = "game" /\ ui.app = "RootApp" /\ ui'.taps = ui.taps + 1 =>
            /\ ui'.history = Append(ui.history, ui.playerBoard)
            /\ ui'.future = <<>>]_vars

\* two edits, one of them undone: both stacks hold a board, and the board
\* on screen differs from both
C30_Witness ==
    /\ pc = "game" /\ ui.app = "RootApp"
    /\ Len(ui.history) = 1 /\ Len(ui.future) = 1
    /\ ui.playerBoard # ui.history[1] /\ ui.playerBoard # ui.future[1]
    /\ Edited(Redo(Undo(ui))) = Edited(ui)

=============================================================================
